---------------------------- MODULE Spec2Model ----------------------------
(***************************************************************************)
(* A model of the intent-resolution and task-execution pipeline of the     *)
(* Windows assistant: the regex Pattern Matcher (IntentParser), the         *)
(* file-backed LocalCache, the Planner, the Action Dispatcher and the       *)
(* Response Composer of TaskExecutor.                                       *)
(*                                                                         *)
(* Text is modelled as Python models it: a str is a sequence of characters *)
(* (one-character TLA+ strings), so lower(), strip(), split(), the `in`    *)
(* substring test and re.search are computed on the characters.            *)
(***************************************************************************)
EXTENDS Integers, Sequences, FiniteSets, TLC

(***************************************************************************)
(* Python str                                                              *)
(***************************************************************************)

\* Python's None.  No str equals it: "<None>" is not a character.
None == <<"<None>">>

\* Python's None where a dict is expected
NoValue == [py |-> "None"]

\* bool(x) of a str-or-None
Truthy(x) == x # None /\ x # <<>>

\* the characters str.isspace() / regex \s accept
SpaceChars == {" ", "\t", "\n", "\r"}

LowerLetters ==
  {"a","b","c","d","e","f","g","h","i","j","k","l","m",
   "n","o","p","q","r","s","t","u","v","w","x","y","z"}

UpperLetters ==
  {"A","B","C","D","E","F","G","H","I","J","K","L","M",
   "N","O","P","Q","R","S","T","U","V","W","X","Y","Z"}

Digits == {"0","1","2","3","4","5","6","7","8","9"}

\* the characters regex \w accepts
WordChars == LowerLetters \cup UpperLetters \cup Digits \cup {"_"}

UpperSeq ==
  <<"A","B","C","D","E","F","G","H","I","J","K","L","M",
    "N","O","P","Q","R","S","T","U","V","W","X","Y","Z">>

LowerSeq ==
  <<"a","b","c","d","e","f","g","h","i","j","k","l","m",
    "n","o","p","q","r","s","t","u","v","w","x","y","z">>

\* str.lower() of one character
LowerChar(c) ==
  IF c \in UpperLetters
    THEN LowerSeq[CHOOSE k \in 1..26 : UpperSeq[k] = c]
    ELSE c

\* str.lower()
lower(s) == [k \in 1..Len(s) |-> LowerChar(s[k])]

\* str.strip()
strip(s) ==
  LET keep == {k \in 1..Len(s) : s[k] \notin SpaceChars}
      Min(S) == CHOOSE x \in S : \A y \in S : x <= y
      Max(S) == CHOOSE x \in S : \A y \in S : x >= y
  IN IF keep = {} THEN <<>> ELSE SubSeq(s, Min(keep), Max(keep))

\* str.split(): the maximal runs of non-space characters, in order
RECURSIVE SplitFrom(_, _, _, _)
SplitFrom(s, i, cur, acc) ==
  IF i > Len(s)
    THEN IF cur = <<>> THEN acc ELSE Append(acc, cur)
    ELSE IF s[i] \in SpaceChars
      THEN SplitFrom(s, i + 1, <<>>, IF cur = <<>> THEN acc ELSE Append(acc, cur))
      ELSE SplitFrom(s, i + 1, Append(cur, s[i]), acc)

split(s) == SplitFrom(s, 1, <<>>, <<>>)

\* `needle in s` for str
Contains(s, needle) ==
  \E i \in 1..(Len(s) - Len(needle) + 1) : SubSeq(s, i, i + Len(needle) - 1) = needle

\* s.split(sep)[0]: the text before the first occurrence of sep (all of s if none)
BeforeFirst(s, sep) ==
  LET hits == {i \in 1..(Len(s) - Len(sep) + 1) : SubSeq(s, i, i + Len(sep) - 1) = sep}
  IN IF hits = {} THEN s
     ELSE SubSeq(s, 1, (CHOOSE i \in hits : \A j \in hits : i <= j) - 1)

\* sep.join(parts)
RECURSIVE Join(_, _)
Join(sep, parts) ==
  IF parts = <<>> THEN <<>>
  ELSE IF Len(parts) = 1 THEN parts[1]
  ELSE parts[1] \o sep \o Join(sep, Tail(parts))

\* the elements of a sequence
Range(f) == {f[k] : k \in DOMAIN f}

(***************************************************************************)
(* Python re: the patterns of the source as syntax trees, matched by        *)
(* backtracking in the priority order of re (leftmost start; a greedy       *)
(* repeat tries one more first, a lazy one tries stopping first; the        *)
(* branches of | left to right).                                            *)
(***************************************************************************)

Lit(s) == [t |-> "lit", s |-> s]
Set(neg, chars, cats) == [t |-> "set", neg |-> neg, chars |-> chars, cats |-> cats]
Space == Set(FALSE, {}, {"space"})
NonSpace == Set(TRUE, {}, {"space"})
Word == Set(FALSE, {}, {"word"})
Dot == Set(TRUE, {"\n"}, {})
DotAll == Set(TRUE, {}, {})
Rep(lo, hi, greedy, r) == [t |-> "rep", lo |-> lo, hi |-> hi, greedy |-> greedy, r |-> r]
Opt(r) == Rep(0, 1, TRUE, r)
Plus(r) == Rep(1, -1, TRUE, r)
Star(r) == Rep(0, -1, TRUE, r)
LazyPlus(r) == Rep(1, -1, FALSE, r)
LazyStar(r) == Rep(0, -1, FALSE, r)
Alt(rs) == [t |-> "alt", rs |-> rs]
Grp(n, r) == [t |-> "grp", n |-> n, r |-> r]
Eos == [t |-> "eos"]
Wb == [t |-> "wb"]
Rx(groups, r) == [groups |-> groups, r |-> r]

InClass(c, node) ==
  LET hit == \/ c \in node.chars
             \/ "space" \in node.cats /\ c \in SpaceChars
             \/ "word" \in node.cats /\ c \in WordChars
  IN IF node.neg THEN ~hit ELSE hit

\* \b at position i (between s[i-1] and s[i])
AtWordBoundary(s, i) ==
  LET before == i > 1 /\ s[i - 1] \in WordChars
      after == i <= Len(s) /\ s[i] \in WordChars
  IN before # after

NoMatch == [ok |-> FALSE, end |-> 0, caps |-> <<>>]

\* one repeat fewer of a repeat node
OneLess(n) ==
  [n EXCEPT !.lo = IF @ > 0 THEN @ - 1 ELSE 0, !.hi = IF @ = -1 THEN -1 ELSE @ - 1]

\* Match the nodes of cont, in order, against s from position i; caps holds the
\* spans of the groups closed so far.  The first success in priority order.
RECURSIVE MatchHere(_, _, _, _)
MatchHere(s, cont, i, caps) ==
  IF cont = <<>> THEN [ok |-> TRUE, end |-> i, caps |-> caps]
  ELSE
    LET n == Head(cont)
        rest == Tail(cont)
    IN CASE n.t = "lit" ->
              IF i + Len(n.s) - 1 <= Len(s) /\ SubSeq(s, i, i + Len(n.s) - 1) = n.s
                THEN MatchHere(s, rest, i + Len(n.s), caps)
                ELSE NoMatch
         [] n.t = "set" ->
              IF i <= Len(s) /\ InClass(s[i], n)
                THEN MatchHere(s, rest, i + 1, caps)
                ELSE NoMatch
         [] n.t = "eos" ->
              IF i = Len(s) + 1 THEN MatchHere(s, rest, i, caps) ELSE NoMatch
         [] n.t = "wb" ->
              IF AtWordBoundary(s, i) THEN MatchHere(s, rest, i, caps) ELSE NoMatch
         [] n.t = "grp" ->
              MatchHere(s, n.r \o <<[t |-> "cap", n |-> n.n, from |-> i]>> \o rest, i, caps)
         [] n.t = "cap" ->
              MatchHere(s, rest, i, [caps EXCEPT ![n.n] = <<n.from, i>>])
         [] n.t = "alt" ->
              IF n.rs = <<>> THEN NoMatch
              ELSE LET first == MatchHere(s, Head(n.rs) \o rest, i, caps)
                   IN IF first.ok THEN first
                      ELSE MatchHere(s, <<Alt(Tail(n.rs))>> \o rest, i, caps)
         [] n.t = "rep" ->
              IF n.lo > 0 THEN MatchHere(s, n.r \o <<OneLess(n)>> \o rest, i, caps)
              ELSE IF n.hi = 0 THEN MatchHere(s, rest, i, caps)
              ELSE IF n.greedy
                THEN LET more == MatchHere(s, n.r \o <<OneLess(n)>> \o rest, i, caps)
                     IN IF more.ok THEN more ELSE MatchHere(s, rest, i, caps)
                ELSE LET stop == MatchHere(s, rest, i, caps)
                     IN IF stop.ok THEN stop
                        ELSE MatchHere(s, n.r \o <<OneLess(n)>> \o rest, i, caps)

\* the least element of a non-empty set of integers
Least(S) == CHOOSE x \in S : \A y \in S : x <= y

\* re.search(rx, s): the match at the leftmost start position, or NoMatch
re_search(rx, s) ==
  LET none == [g \in 1..rx.groups |-> <<0, 0>>]
      starts == {i \in 1..(Len(s) + 1) : MatchHere(s, rx.r, i, none).ok}
  IN IF starts = {} THEN NoMatch ELSE MatchHere(s, rx.r, Least(starts), none)


\* match.group(g): None when the group took no part in the match
group(s, m, g) ==
  IF m.caps[g] = <<0, 0>> THEN None ELSE SubSeq(s, m.caps[g][1], m.caps[g][2] - 1)

(***************************************************************************)
(* Python dict, JSON and the LLM's reply                                   *)
(***************************************************************************)

\* dict.get(k, default) of a dict modelled as a record
Get(d, k, default) == IF k \in DOMAIN d THEN d[k] ELSE default

\* The text of an LLM reply is a sequence of pieces: a character Ch(c), or a
\* maximal well-formed JSON object Json(v) (the text "{...}" that json.loads
\* turns into v).
Ch(c) == [k |-> "ch", c |-> c, v |-> <<>>]

Json(v) == [k |-> "json", c |-> "", v |-> v]

IsJsonPiece(x) == x.k = "json"

OpensBrace(x) == IsJsonPiece(x) \/ x.c = "{"

ClosesBrace(x) == IsJsonPiece(x) \/ x.c = "}"

\* re.search(r'\{.*\}', response, re.DOTALL).group(): from the first "{" to the
\* last "}" of the reply; <<>> when there is no such span (no match)
ExtractJson(response) ==
  LET opens == {i \in 1..Len(response) : OpensBrace(response[i])}
      closes == {i \in 1..Len(response) : ClosesBrace(response[i])}
      first == CHOOSE i \in opens : \A j \in opens : i <= j
      last == CHOOSE i \in closes : \A j \in closes : i >= j
      \* a lone JSON object is both the "{" and the "}" of the span; a lone
      \* character "{" needs a later "}"
      spans == opens # {} /\ closes # {} /\
               (first < last \/ (first = last /\ IsJsonPiece(response[first])))
  IN IF spans THEN SubSeq(response, first, last) ELSE <<>>

\* json.loads(text): the value when the text is exactly one JSON object, else
\* JSONDecodeError
json_loads(text) ==
  IF Len(text) = 1 /\ IsJsonPiece(text[1])
    THEN [ok |-> TRUE, value |-> text[1].v]
    ELSE [ok |-> FALSE, value |-> NoValue]

(***************************************************************************)
(* IntentParser                                                            *)
(***************************************************************************)

intent_patterns ==
  <<
   [intent |-> <<"o","p","e","n","_","a","p","p">>, patterns |-> <<
       \* open\s+(?:the\s+)?(.+?)(?:\s+(?:app|application|program))?$
       Rx(1, <<Lit(<<"o","p","e","n">>), Plus(<<Space>>), Opt(<<Lit(<<"t","h","e">>), Plus(<<Space>>)>>), Grp(1, <<LazyPlus(<<Dot>>)>>), Opt(<<Plus(<<Space>>), Alt(<<<<Lit(<<"a","p","p">>)>>, <<Lit(<<"a","p","p","l","i","c","a","t","i","o","n">>)>>, <<Lit(<<"p","r","o","g","r","a","m">>)>>>>)>>), Eos>>),
       \* launch\s+(?:the\s+)?(.+?)(?:\s+(?:app|application|program))?$
       Rx(1, <<Lit(<<"l","a","u","n","c","h">>), Plus(<<Space>>), Opt(<<Lit(<<"t","h","e">>), Plus(<<Space>>)>>), Grp(1, <<LazyPlus(<<Dot>>)>>), Opt(<<Plus(<<Space>>), Alt(<<<<Lit(<<"a","p","p">>)>>, <<Lit(<<"a","p","p","l","i","c","a","t","i","o","n">>)>>, <<Lit(<<"p","r","o","g","r","a","m">>)>>>>)>>), Eos>>),
       \* start\s+(?:the\s+)?(.+?)(?:\s+(?:app|application|program))?$
       Rx(1, <<Lit(<<"s","t","a","r","t">>), Plus(<<Space>>), Opt(<<Lit(<<"t","h","e">>), Plus(<<Space>>)>>), Grp(1, <<LazyPlus(<<Dot>>)>>), Opt(<<Plus(<<Space>>), Alt(<<<<Lit(<<"a","p","p">>)>>, <<Lit(<<"a","p","p","l","i","c","a","t","i","o","n">>)>>, <<Lit(<<"p","r","o","g","r","a","m">>)>>>>)>>), Eos>>),
       \* run\s+(?:the\s+)?(.+?)(?:\s+(?:app|application|program))?$
       Rx(1, <<Lit(<<"r","u","n">>), Plus(<<Space>>), Opt(<<Lit(<<"t","h","e">>), Plus(<<Space>>)>>), Grp(1, <<LazyPlus(<<Dot>>)>>), Opt(<<Plus(<<Space>>), Alt(<<<<Lit(<<"a","p","p">>)>>, <<Lit(<<"a","p","p","l","i","c","a","t","i","o","n">>)>>, <<Lit(<<"p","r","o","g","r","a","m">>)>>>>)>>), Eos>>) >>],
   [intent |-> <<"c","l","o","s","e","_","a","p","p">>, patterns |-> <<
       \* close\s+(?:the\s+)?(.+?)(?:\s+(?:app|application|program))?$
       Rx(1, <<Lit(<<"c","l","o","s","e">>), Plus(<<Space>>), Opt(<<Lit(<<"t","h","e">>), Plus(<<Space>>)>>), Grp(1, <<LazyPlus(<<Dot>>)>>), Opt(<<Plus(<<Space>>), Alt(<<<<Lit(<<"a","p","p">>)>>, <<Lit(<<"a","p","p","l","i","c","a","t","i","o","n">>)>>, <<Lit(<<"p","r","o","g","r","a","m">>)>>>>)>>), Eos>>),
       \* quit\s+(?:the\s+)?(.+?)(?:\s+(?:app|application|program))?$
       Rx(1, <<Lit(<<"q","u","i","t">>), Plus(<<Space>>), Opt(<<Lit(<<"t","h","e">>), Plus(<<Space>>)>>), Grp(1, <<LazyPlus(<<Dot>>)>>), Opt(<<Plus(<<Space>>), Alt(<<<<Lit(<<"a","p","p">>)>>, <<Lit(<<"a","p","p","l","i","c","a","t","i","o","n">>)>>, <<Lit(<<"p","r","o","g","r","a","m">>)>>>>)>>), Eos>>),
       \* exit\s+(?:the\s+)?(.+?)(?:\s+(?:app|application|program))?$
       Rx(1, <<Lit(<<"e","x","i","t">>), Plus(<<Space>>), Opt(<<Lit(<<"t","h","e">>), Plus(<<Space>>)>>), Grp(1, <<LazyPlus(<<Dot>>)>>), Opt(<<Plus(<<Space>>), Alt(<<<<Lit(<<"a","p","p">>)>>, <<Lit(<<"a","p","p","l","i","c","a","t","i","o","n">>)>>, <<Lit(<<"p","r","o","g","r","a","m">>)>>>>)>>), Eos>>),
       \* stop\s+(?:the\s+)?(.+?)(?:\s+(?:app|application|program))?$
       Rx(1, <<Lit(<<"s","t","o","p">>), Plus(<<Space>>), Opt(<<Lit(<<"t","h","e">>), Plus(<<Space>>)>>), Grp(1, <<LazyPlus(<<Dot>>)>>), Opt(<<Plus(<<Space>>), Alt(<<<<Lit(<<"a","p","p">>)>>, <<Lit(<<"a","p","p","l","i","c","a","t","i","o","n">>)>>, <<Lit(<<"p","r","o","g","r","a","m">>)>>>>)>>), Eos>>) >>],
   [intent |-> <<"c","r","e","a","t","e","_","f","i","l","e">>, patterns |-> <<
       \* create\s+(?:a\s+)?file\s+(?:called\s+)?([^\s]+)
       Rx(1, <<Lit(<<"c","r","e","a","t","e">>), Plus(<<Space>>), Opt(<<Lit(<<"a">>), Plus(<<Space>>)>>), Lit(<<"f","i","l","e">>), Plus(<<Space>>), Opt(<<Lit(<<"c","a","l","l","e","d">>), Plus(<<Space>>)>>), Grp(1, <<Plus(<<NonSpace>>)>>)>>),
       \* make\s+(?:a\s+)?file\s+(?:named\s+)?([^\s]+)
       Rx(1, <<Lit(<<"m","a","k","e">>), Plus(<<Space>>), Opt(<<Lit(<<"a">>), Plus(<<Space>>)>>), Lit(<<"f","i","l","e">>), Plus(<<Space>>), Opt(<<Lit(<<"n","a","m","e","d">>), Plus(<<Space>>)>>), Grp(1, <<Plus(<<NonSpace>>)>>)>>),
       \* new\s+file\s+([^\s]+)
       Rx(1, <<Lit(<<"n","e","w">>), Plus(<<Space>>), Lit(<<"f","i","l","e">>), Plus(<<Space>>), Grp(1, <<Plus(<<NonSpace>>)>>)>>) >>],
   [intent |-> <<"r","e","a","d","_","f","i","l","e">>, patterns |-> <<
       \* read\s+(?:the\s+)?file\s+([^\s]+)
       Rx(1, <<Lit(<<"r","e","a","d">>), Plus(<<Space>>), Opt(<<Lit(<<"t","h","e">>), Plus(<<Space>>)>>), Lit(<<"f","i","l","e">>), Plus(<<Space>>), Grp(1, <<Plus(<<NonSpace>>)>>)>>),
       \* show\s+(?:me\s+)?(?:the\s+)?file\s+([^\s]+)
       Rx(1, <<Lit(<<"s","h","o","w">>), Plus(<<Space>>), Opt(<<Lit(<<"m","e">>), Plus(<<Space>>)>>), Opt(<<Lit(<<"t","h","e">>), Plus(<<Space>>)>>), Lit(<<"f","i","l","e">>), Plus(<<Space>>), Grp(1, <<Plus(<<NonSpace>>)>>)>>),
       \* open\s+(?:the\s+)?file\s+([^\s]+)
       Rx(1, <<Lit(<<"o","p","e","n">>), Plus(<<Space>>), Opt(<<Lit(<<"t","h","e">>), Plus(<<Space>>)>>), Lit(<<"f","i","l","e">>), Plus(<<Space>>), Grp(1, <<Plus(<<NonSpace>>)>>)>>) >>],
   [intent |-> <<"l","i","s","t","_","d","i","r","e","c","t","o","r","y">>, patterns |-> <<
       \* list\s+(?:files\s+in\s+)?([^\s]+)
       Rx(1, <<Lit(<<"l","i","s","t">>), Plus(<<Space>>), Opt(<<Lit(<<"f","i","l","e","s">>), Plus(<<Space>>), Lit(<<"i","n">>), Plus(<<Space>>)>>), Grp(1, <<Plus(<<NonSpace>>)>>)>>),
       \* show\s+(?:me\s+)?(?:files\s+in\s+)?([^\s]+)
       Rx(1, <<Lit(<<"s","h","o","w">>), Plus(<<Space>>), Opt(<<Lit(<<"m","e">>), Plus(<<Space>>)>>), Opt(<<Lit(<<"f","i","l","e","s">>), Plus(<<Space>>), Lit(<<"i","n">>), Plus(<<Space>>)>>), Grp(1, <<Plus(<<NonSpace>>)>>)>>),
       \* what.*in\s+([^\s]+)
       Rx(1, <<Lit(<<"w","h","a","t">>), Star(<<Dot>>), Lit(<<"i","n">>), Plus(<<Space>>), Grp(1, <<Plus(<<NonSpace>>)>>)>>),
       \* ls\s+([^\s]+)
       Rx(1, <<Lit(<<"l","s">>), Plus(<<Space>>), Grp(1, <<Plus(<<NonSpace>>)>>)>>) >>],
   [intent |-> <<"r","u","n","_","c","o","m","m","a","n","d">>, patterns |-> <<
       \* run\s+command\s+(.+)
       Rx(1, <<Lit(<<"r","u","n">>), Plus(<<Space>>), Lit(<<"c","o","m","m","a","n","d">>), Plus(<<Space>>), Grp(1, <<Plus(<<Dot>>)>>)>>),
       \* execute\s+(.+)
       Rx(1, <<Lit(<<"e","x","e","c","u","t","e">>), Plus(<<Space>>), Grp(1, <<Plus(<<Dot>>)>>)>>),
       \* cmd\s+(.+)
       Rx(1, <<Lit(<<"c","m","d">>), Plus(<<Space>>), Grp(1, <<Plus(<<Dot>>)>>)>>) >>],
   [intent |-> <<"a","d","d","_","t","a","s","k">>, patterns |-> <<
       \* remind\s+me\s+to\s+(.+)
       Rx(1, <<Lit(<<"r","e","m","i","n","d">>), Plus(<<Space>>), Lit(<<"m","e">>), Plus(<<Space>>), Lit(<<"t","o">>), Plus(<<Space>>), Grp(1, <<Plus(<<Dot>>)>>)>>),
       \* add\s+task\s+(.+)
       Rx(1, <<Lit(<<"a","d","d">>), Plus(<<Space>>), Lit(<<"t","a","s","k">>), Plus(<<Space>>), Grp(1, <<Plus(<<Dot>>)>>)>>),
       \* create\s+reminder\s+(.+)
       Rx(1, <<Lit(<<"c","r","e","a","t","e">>), Plus(<<Space>>), Lit(<<"r","e","m","i","n","d","e","r">>), Plus(<<Space>>), Grp(1, <<Plus(<<Dot>>)>>)>>),
       \* set\s+reminder\s+(?:for\s+)?(.+)
       Rx(1, <<Lit(<<"s","e","t">>), Plus(<<Space>>), Lit(<<"r","e","m","i","n","d","e","r">>), Plus(<<Space>>), Opt(<<Lit(<<"f","o","r">>), Plus(<<Space>>)>>), Grp(1, <<Plus(<<Dot>>)>>)>>) >>],
   [intent |-> <<"a","n","a","l","y","z","e","_","s","y","s","t","e","m">>, patterns |-> <<
       \* check\s+(?:what\s+is\s+the\s+)?process\s+(?:who\s+)?consume.*resources?
       Rx(0, <<Lit(<<"c","h","e","c","k">>), Plus(<<Space>>), Opt(<<Lit(<<"w","h","a","t">>), Plus(<<Space>>), Lit(<<"i","s">>), Plus(<<Space>>), Lit(<<"t","h","e">>), Plus(<<Space>>)>>), Lit(<<"p","r","o","c","e","s","s">>), Plus(<<Space>>), Opt(<<Lit(<<"w","h","o">>), Plus(<<Space>>)>>), Lit(<<"c","o","n","s","u","m","e">>), Star(<<Dot>>), Lit(<<"r","e","s","o","u","r","c","e">>), Opt(<<Lit(<<"s">>)>>)>>),
       \* analyze\s+(?:system\s+)?resource.*usage
       Rx(0, <<Lit(<<"a","n","a","l","y","z","e">>), Plus(<<Space>>), Opt(<<Lit(<<"s","y","s","t","e","m">>), Plus(<<Space>>)>>), Lit(<<"r","e","s","o","u","r","c","e">>), Star(<<Dot>>), Lit(<<"u","s","a","g","e">>)>>),
       \* show\s+(?:me\s+)?high\s+resource.*processes?
       Rx(0, <<Lit(<<"s","h","o","w">>), Plus(<<Space>>), Opt(<<Lit(<<"m","e">>), Plus(<<Space>>)>>), Lit(<<"h","i","g","h">>), Plus(<<Space>>), Lit(<<"r","e","s","o","u","r","c","e">>), Star(<<Dot>>), Lit(<<"p","r","o","c","e","s","s","e">>), Opt(<<Lit(<<"s">>)>>)>>),
       \* what.*consuming.*(?:cpu|memory|resources?)
       Rx(0, <<Lit(<<"w","h","a","t">>), Star(<<Dot>>), Lit(<<"c","o","n","s","u","m","i","n","g">>), Star(<<Dot>>), Alt(<<<<Lit(<<"c","p","u">>)>>, <<Lit(<<"m","e","m","o","r","y">>)>>, <<Lit(<<"r","e","s","o","u","r","c","e">>), Opt(<<Lit(<<"s">>)>>)>>>>)>>),
       \* check\s+system\s+performance
       Rx(0, <<Lit(<<"c","h","e","c","k">>), Plus(<<Space>>), Lit(<<"s","y","s","t","e","m">>), Plus(<<Space>>), Lit(<<"p","e","r","f","o","r","m","a","n","c","e">>)>>),
       \* resource\s+monitor
       Rx(0, <<Lit(<<"r","e","s","o","u","r","c","e">>), Plus(<<Space>>), Lit(<<"m","o","n","i","t","o","r">>)>>),
       \* performance\s+analysis
       Rx(0, <<Lit(<<"p","e","r","f","o","r","m","a","n","c","e">>), Plus(<<Space>>), Lit(<<"a","n","a","l","y","s","i","s">>)>>) >>],
   [intent |-> <<"s","c","a","n","_","w","i","f","i">>, patterns |-> <<
       \* check\s+(?:how\s+many\s+)?wifi.*(?:networks?|there\s+are)
       Rx(0, <<Lit(<<"c","h","e","c","k">>), Plus(<<Space>>), Opt(<<Lit(<<"h","o","w">>), Plus(<<Space>>), Lit(<<"m","a","n","y">>), Plus(<<Space>>)>>), Lit(<<"w","i","f","i">>), Star(<<Dot>>), Alt(<<<<Lit(<<"n","e","t","w","o","r","k">>), Opt(<<Lit(<<"s">>)>>)>>, <<Lit(<<"t","h","e","r","e">>), Plus(<<Space>>), Lit(<<"a","r","e">>)>>>>)>>),
       \* scan\s+(?:for\s+)?wifi.*networks?
       Rx(0, <<Lit(<<"s","c","a","n">>), Plus(<<Space>>), Opt(<<Lit(<<"f","o","r">>), Plus(<<Space>>)>>), Lit(<<"w","i","f","i">>), Star(<<Dot>>), Lit(<<"n","e","t","w","o","r","k">>), Opt(<<Lit(<<"s">>)>>)>>),
       \* show\s+(?:me\s+)?(?:available\s+)?wifi.*networks?
       Rx(0, <<Lit(<<"s","h","o","w">>), Plus(<<Space>>), Opt(<<Lit(<<"m","e">>), Plus(<<Space>>)>>), Opt(<<Lit(<<"a","v","a","i","l","a","b","l","e">>), Plus(<<Space>>)>>), Lit(<<"w","i","f","i">>), Star(<<Dot>>), Lit(<<"n","e","t","w","o","r","k">>), Opt(<<Lit(<<"s">>)>>)>>),
       \* list\s+wifi.*networks?
       Rx(0, <<Lit(<<"l","i","s","t">>), Plus(<<Space>>), Lit(<<"w","i","f","i">>), Star(<<Dot>>), Lit(<<"n","e","t","w","o","r","k">>), Opt(<<Lit(<<"s">>)>>)>>),
       \* what\s+wifi.*(?:networks?|available)
       Rx(0, <<Lit(<<"w","h","a","t">>), Plus(<<Space>>), Lit(<<"w","i","f","i">>), Star(<<Dot>>), Alt(<<<<Lit(<<"n","e","t","w","o","r","k">>), Opt(<<Lit(<<"s">>)>>)>>, <<Lit(<<"a","v","a","i","l","a","b","l","e">>)>>>>)>>),
       \* wifi\s+scan
       Rx(0, <<Lit(<<"w","i","f","i">>), Plus(<<Space>>), Lit(<<"s","c","a","n">>)>>),
       \* networks?\s+available
       Rx(0, <<Lit(<<"n","e","t","w","o","r","k">>), Opt(<<Lit(<<"s">>)>>), Plus(<<Space>>), Lit(<<"a","v","a","i","l","a","b","l","e">>)>>) >>],
   [intent |-> <<"s","c","a","n","_","a","v","a","i","l","a","b","l","e","_","w","i","f","i">>, patterns |-> <<
       \* (?:how\s+many\s+)?wifi.*(?:capted|captured|detected|visible)\s+now
       Rx(0, <<Opt(<<Lit(<<"h","o","w">>), Plus(<<Space>>), Lit(<<"m","a","n","y">>), Plus(<<Space>>)>>), Lit(<<"w","i","f","i">>), Star(<<Dot>>), Alt(<<<<Lit(<<"c","a","p","t","e","d">>)>>, <<Lit(<<"c","a","p","t","u","r","e","d">>)>>, <<Lit(<<"d","e","t","e","c","t","e","d">>)>>, <<Lit(<<"v","i","s","i","b","l","e">>)>>>>), Plus(<<Space>>), Lit(<<"n","o","w">>)>>),
       \* (?:show|list)\s+(?:only\s+)?(?:available|visible|current)\s+wifi.*networks?
       Rx(0, <<Alt(<<<<Lit(<<"s","h","o","w">>)>>, <<Lit(<<"l","i","s","t">>)>>>>), Plus(<<Space>>), Opt(<<Lit(<<"o","n","l","y">>), Plus(<<Space>>)>>), Alt(<<<<Lit(<<"a","v","a","i","l","a","b","l","e">>)>>, <<Lit(<<"v","i","s","i","b","l","e">>)>>, <<Lit(<<"c","u","r","r","e","n","t">>)>>>>), Plus(<<Space>>), Lit(<<"w","i","f","i">>), Star(<<Dot>>), Lit(<<"n","e","t","w","o","r","k">>), Opt(<<Lit(<<"s">>)>>)>>),
       \* wifi.*networks?\s+(?:now|currently|visible|available)
       Rx(0, <<Lit(<<"w","i","f","i">>), Star(<<Dot>>), Lit(<<"n","e","t","w","o","r","k">>), Opt(<<Lit(<<"s">>)>>), Plus(<<Space>>), Alt(<<<<Lit(<<"n","o","w">>)>>, <<Lit(<<"c","u","r","r","e","n","t","l","y">>)>>, <<Lit(<<"v","i","s","i","b","l","e">>)>>, <<Lit(<<"a","v","a","i","l","a","b","l","e">>)>>>>)>>),
       \* (?:current|available|visible)\s+wifi.*(?:only|just)
       Rx(0, <<Alt(<<<<Lit(<<"c","u","r","r","e","n","t">>)>>, <<Lit(<<"a","v","a","i","l","a","b","l","e">>)>>, <<Lit(<<"v","i","s","i","b","l","e">>)>>>>), Plus(<<Space>>), Lit(<<"w","i","f","i">>), Star(<<Dot>>), Alt(<<<<Lit(<<"o","n","l","y">>)>>, <<Lit(<<"j","u","s","t">>)>>>>)>>),
       \* not\s+saved.*networks?.*(?:current|available|visible)
       Rx(0, <<Lit(<<"n","o","t">>), Plus(<<Space>>), Lit(<<"s","a","v","e","d">>), Star(<<Dot>>), Lit(<<"n","e","t","w","o","r","k">>), Opt(<<Lit(<<"s">>)>>), Star(<<Dot>>), Alt(<<<<Lit(<<"c","u","r","r","e","n","t">>)>>, <<Lit(<<"a","v","a","i","l","a","b","l","e">>)>>, <<Lit(<<"v","i","s","i","b","l","e">>)>>>>)>>),
       \* (?:real.time|live)\s+wifi.*scan
       Rx(0, <<Alt(<<<<Lit(<<"r","e","a","l">>), Dot, Lit(<<"t","i","m","e">>)>>, <<Lit(<<"l","i","v","e">>)>>>>), Plus(<<Space>>), Lit(<<"w","i","f","i">>), Star(<<Dot>>), Lit(<<"s","c","a","n">>)>>) >>],
   [intent |-> <<"w","i","n","d","o","w","s","_","c","o","m","m","a","n","d">>, patterns |-> <<
       \* (?:run|execute)\s+(?:command\s+)?(\w+)
       Rx(1, <<Alt(<<<<Lit(<<"r","u","n">>)>>, <<Lit(<<"e","x","e","c","u","t","e">>)>>>>), Plus(<<Space>>), Opt(<<Lit(<<"c","o","m","m","a","n","d">>), Plus(<<Space>>)>>), Grp(1, <<Plus(<<Word>>)>>)>>),
       \* (?:check|show|get)\s+system\s+(?:info|information)
       Rx(0, <<Alt(<<<<Lit(<<"c","h","e","c","k">>)>>, <<Lit(<<"s","h","o","w">>)>>, <<Lit(<<"g","e","t">>)>>>>), Plus(<<Space>>), Lit(<<"s","y","s","t","e","m">>), Plus(<<Space>>), Lit(<<"i","n","f","o">>), Alt(<<<<>>, <<Lit(<<"r","m","a","t","i","o","n">>)>>>>)>>),
       \* (?:system|computer|pc)\s+(?:analysis|check|scan)
       Rx(0, <<Alt(<<<<Lit(<<"s","y","s","t","e","m">>)>>, <<Lit(<<"c","o","m","p","u","t","e","r">>)>>, <<Lit(<<"p","c">>)>>>>), Plus(<<Space>>), Alt(<<<<Lit(<<"a","n","a","l","y","s","i","s">>)>>, <<Lit(<<"c","h","e","c","k">>)>>, <<Lit(<<"s","c","a","n">>)>>>>)>>),
       \* (?:disk|memory|cpu|performance)\s+(?:usage|check|info)
       Rx(0, <<Alt(<<<<Lit(<<"d","i","s","k">>)>>, <<Lit(<<"m","e","m","o","r","y">>)>>, <<Lit(<<"c","p","u">>)>>, <<Lit(<<"p","e","r","f","o","r","m","a","n","c","e">>)>>>>), Plus(<<Space>>), Alt(<<<<Lit(<<"u","s","a","g","e">>)>>, <<Lit(<<"c","h","e","c","k">>)>>, <<Lit(<<"i","n","f","o">>)>>>>)>>),
       \* (?:network|wifi|internet)\s+(?:config|status|info)
       Rx(0, <<Alt(<<<<Lit(<<"n","e","t","w","o","r","k">>)>>, <<Lit(<<"w","i","f","i">>)>>, <<Lit(<<"i","n","t","e","r","n","e","t">>)>>>>), Plus(<<Space>>), Alt(<<<<Lit(<<"c","o","n","f","i","g">>)>>, <<Lit(<<"s","t","a","t","u","s">>)>>, <<Lit(<<"i","n","f","o">>)>>>>)>>) >>],
   [intent |-> <<"c","o","m","p","u","t","e","r","_","a","u","t","o","m","a","t","i","o","n">>, patterns |-> <<
       \* (?:automate|control|use)\s+(?:the\s+)?computer
       Rx(0, <<Alt(<<<<Lit(<<"a","u","t","o","m","a","t","e">>)>>, <<Lit(<<"c","o","n","t","r","o","l">>)>>, <<Lit(<<"u","s","e">>)>>>>), Plus(<<Space>>), Opt(<<Lit(<<"t","h","e">>), Plus(<<Space>>)>>), Lit(<<"c","o","m","p","u","t","e","r">>)>>),
       \* click\s+(?:on\s+)?(.+)
       Rx(1, <<Lit(<<"c","l","i","c","k">>), Plus(<<Space>>), Opt(<<Lit(<<"o","n">>), Plus(<<Space>>)>>), Grp(1, <<Plus(<<Dot>>)>>)>>),
       \* type\s+(.+)
       Rx(1, <<Lit(<<"t","y","p","e">>), Plus(<<Space>>), Grp(1, <<Plus(<<Dot>>)>>)>>),
       \* scroll\s+(?:down|up|left|right)
       Rx(0, <<Lit(<<"s","c","r","o","l","l">>), Plus(<<Space>>), Alt(<<<<Lit(<<"d","o","w","n">>)>>, <<Lit(<<"u","p">>)>>, <<Lit(<<"l","e","f","t">>)>>, <<Lit(<<"r","i","g","h","t">>)>>>>)>>),
       \* find\s+(?:and\s+click\s+)?(.+)
       Rx(1, <<Lit(<<"f","i","n","d">>), Plus(<<Space>>), Opt(<<Lit(<<"a","n","d">>), Plus(<<Space>>), Lit(<<"c","l","i","c","k">>), Plus(<<Space>>)>>), Grp(1, <<Plus(<<Dot>>)>>)>>),
       \* take\s+(?:a\s+)?screenshot
       Rx(0, <<Lit(<<"t","a","k","e">>), Plus(<<Space>>), Opt(<<Lit(<<"a">>), Plus(<<Space>>)>>), Lit(<<"s","c","r","e","e","n","s","h","o","t">>)>>),
       \* analyze\s+(?:the\s+)?screen
       Rx(0, <<Lit(<<"a","n","a","l","y","z","e">>), Plus(<<Space>>), Opt(<<Lit(<<"t","h","e">>), Plus(<<Space>>)>>), Lit(<<"s","c","r","e","e","n">>)>>),
       \* locate\s+(.+)\s+on\s+screen
       Rx(1, <<Lit(<<"l","o","c","a","t","e">>), Plus(<<Space>>), Grp(1, <<Plus(<<Dot>>)>>), Plus(<<Space>>), Lit(<<"o","n">>), Plus(<<Space>>), Lit(<<"s","c","r","e","e","n">>)>>),
       \* interact\s+with\s+(.+)
       Rx(1, <<Lit(<<"i","n","t","e","r","a","c","t">>), Plus(<<Space>>), Lit(<<"w","i","t","h">>), Plus(<<Space>>), Grp(1, <<Plus(<<Dot>>)>>)>>) >>],
   [intent |-> <<"s","c","r","e","e","n","_","a","n","a","l","y","s","i","s">>, patterns |-> <<
       \* what.*(?:on\s+)?(?:the\s+)?screen
       Rx(0, <<Lit(<<"w","h","a","t">>), Star(<<Dot>>), Opt(<<Lit(<<"o","n">>), Plus(<<Space>>)>>), Opt(<<Lit(<<"t","h","e">>), Plus(<<Space>>)>>), Lit(<<"s","c","r","e","e","n">>)>>),
       \* describe\s+(?:what.*)?(?:on\s+)?(?:the\s+)?screen
       Rx(0, <<Lit(<<"d","e","s","c","r","i","b","e">>), Plus(<<Space>>), Opt(<<Lit(<<"w","h","a","t">>), Star(<<Dot>>)>>), Opt(<<Lit(<<"o","n">>), Plus(<<Space>>)>>), Opt(<<Lit(<<"t","h","e">>), Plus(<<Space>>)>>), Lit(<<"s","c","r","e","e","n">>)>>),
       \* analyze\s+(?:current\s+)?screen
       Rx(0, <<Lit(<<"a","n","a","l","y","z","e">>), Plus(<<Space>>), Opt(<<Lit(<<"c","u","r","r","e","n","t">>), Plus(<<Space>>)>>), Lit(<<"s","c","r","e","e","n">>)>>),
       \* scan\s+(?:the\s+)?screen
       Rx(0, <<Lit(<<"s","c","a","n">>), Plus(<<Space>>), Opt(<<Lit(<<"t","h","e">>), Plus(<<Space>>)>>), Lit(<<"s","c","r","e","e","n">>)>>),
       \* show\s+(?:me\s+)?screen\s+(?:elements|content)
       Rx(0, <<Lit(<<"s","h","o","w">>), Plus(<<Space>>), Opt(<<Lit(<<"m","e">>), Plus(<<Space>>)>>), Lit(<<"s","c","r","e","e","n">>), Plus(<<Space>>), Alt(<<<<Lit(<<"e","l","e","m","e","n","t","s">>)>>, <<Lit(<<"c","o","n","t","e","n","t">>)>>>>)>>),
       \* detect\s+(?:elements|buttons|text)\s+(?:on\s+screen)?
       Rx(0, <<Lit(<<"d","e","t","e","c","t">>), Plus(<<Space>>), Alt(<<<<Lit(<<"e","l","e","m","e","n","t","s">>)>>, <<Lit(<<"b","u","t","t","o","n","s">>)>>, <<Lit(<<"t","e","x","t">>)>>>>), Plus(<<Space>>), Opt(<<Lit(<<"o","n">>), Plus(<<Space>>), Lit(<<"s","c","r","e","e","n">>)>>)>>) >>],
   [intent |-> <<"w","e","b","_","a","u","t","o","m","a","t","i","o","n">>, patterns |-> <<
       \* open\s+(?:browser|chrome|firefox|edge)
       Rx(0, <<Lit(<<"o","p","e","n">>), Plus(<<Space>>), Alt(<<<<Lit(<<"b","r","o","w","s","e","r">>)>>, <<Lit(<<"c","h","r","o","m","e">>)>>, <<Lit(<<"f","i","r","e","f","o","x">>)>>, <<Lit(<<"e","d","g","e">>)>>>>)>>),
       \* go\s+to\s+(.+)
       Rx(1, <<Lit(<<"g","o">>), Plus(<<Space>>), Lit(<<"t","o">>), Plus(<<Space>>), Grp(1, <<Plus(<<Dot>>)>>)>>),
       \* navigate\s+to\s+(.+)
       Rx(1, <<Lit(<<"n","a","v","i","g","a","t","e">>), Plus(<<Space>>), Lit(<<"t","o">>), Plus(<<Space>>), Grp(1, <<Plus(<<Dot>>)>>)>>),
       \* visit\s+(.+)
       Rx(1, <<Lit(<<"v","i","s","i","t">>), Plus(<<Space>>), Grp(1, <<Plus(<<Dot>>)>>)>>),
       \* browse\s+(?:to\s+)?(.+)
       Rx(1, <<Lit(<<"b","r","o","w","s","e">>), Plus(<<Space>>), Opt(<<Lit(<<"t","o">>), Plus(<<Space>>)>>), Grp(1, <<Plus(<<Dot>>)>>)>>),
       \* search\s+(?:for\s+)?(.+)\s+(?:on\s+)?(?:google|web)
       Rx(1, <<Lit(<<"s","e","a","r","c","h">>), Plus(<<Space>>), Opt(<<Lit(<<"f","o","r">>), Plus(<<Space>>)>>), Grp(1, <<Plus(<<Dot>>)>>), Plus(<<Space>>), Opt(<<Lit(<<"o","n">>), Plus(<<Space>>)>>), Alt(<<<<Lit(<<"g","o","o","g","l","e">>)>>, <<Lit(<<"w","e","b">>)>>>>)>>),
       \* fill\s+(?:in\s+)?(?:form|field)\s+(.+)
       Rx(1, <<Lit(<<"f","i","l","l">>), Plus(<<Space>>), Opt(<<Lit(<<"i","n">>), Plus(<<Space>>)>>), Lit(<<"f">>), Alt(<<<<Lit(<<"o","r","m">>)>>, <<Lit(<<"i","e","l","d">>)>>>>), Plus(<<Space>>), Grp(1, <<Plus(<<Dot>>)>>)>>),
       \* submit\s+(?:form|search)
       Rx(0, <<Lit(<<"s","u","b","m","i","t">>), Plus(<<Space>>), Alt(<<<<Lit(<<"f","o","r","m">>)>>, <<Lit(<<"s","e","a","r","c","h">>)>>>>)>>) >>],
   [intent |-> <<"t","a","s","k","_","a","u","t","o","m","a","t","i","o","n">>, patterns |-> <<
       \* perform\s+task\s+(.+)
       Rx(1, <<Lit(<<"p","e","r","f","o","r","m">>), Plus(<<Space>>), Lit(<<"t","a","s","k">>), Plus(<<Space>>), Grp(1, <<Plus(<<Dot>>)>>)>>),
       \* execute\s+workflow\s+(.+)
       Rx(1, <<Lit(<<"e","x","e","c","u","t","e">>), Plus(<<Space>>), Lit(<<"w","o","r","k","f","l","o","w">>), Plus(<<Space>>), Grp(1, <<Plus(<<Dot>>)>>)>>),
       \* automate\s+(.+)
       Rx(1, <<Lit(<<"a","u","t","o","m","a","t","e">>), Plus(<<Space>>), Grp(1, <<Plus(<<Dot>>)>>)>>),
       \* do\s+(?:the\s+)?following:\s+(.+)
       Rx(1, <<Lit(<<"d","o">>), Plus(<<Space>>), Opt(<<Lit(<<"t","h","e">>), Plus(<<Space>>)>>), Lit(<<"f","o","l","l","o","w","i","n","g",":">>), Plus(<<Space>>), Grp(1, <<Plus(<<Dot>>)>>)>>),
       \* complete\s+task\s+(.+)
       Rx(1, <<Lit(<<"c","o","m","p","l","e","t","e">>), Plus(<<Space>>), Lit(<<"t","a","s","k">>), Plus(<<Space>>), Grp(1, <<Plus(<<Dot>>)>>)>>),
       \* carry\s+out\s+(.+)
       Rx(1, <<Lit(<<"c","a","r","r","y">>), Plus(<<Space>>), Lit(<<"o","u","t">>), Plus(<<Space>>), Grp(1, <<Plus(<<Dot>>)>>)>>) >>],
   [intent |-> <<"s","y","s","t","e","m","_","c","o","m","m","a","n","d","s">>, patterns |-> <<
       \* (?:fix|repair)\s+(?:system|windows|corruption)
       Rx(0, <<Alt(<<<<Lit(<<"f","i","x">>)>>, <<Lit(<<"r","e","p","a","i","r">>)>>>>), Plus(<<Space>>), Alt(<<<<Lit(<<"s","y","s","t","e","m">>)>>, <<Lit(<<"w","i","n","d","o","w","s">>)>>, <<Lit(<<"c","o","r","r","u","p","t","i","o","n">>)>>>>)>>),
       \* (?:clean|cleanup)\s+(?:disk|system|temp)
       Rx(0, <<Lit(<<"c","l","e","a","n">>), Alt(<<<<>>, <<Lit(<<"u","p">>)>>>>), Plus(<<Space>>), Alt(<<<<Lit(<<"d","i","s","k">>)>>, <<Lit(<<"s","y","s","t","e","m">>)>>, <<Lit(<<"t","e","m","p">>)>>>>)>>),
       \* (?:optimize|speed\s+up)\s+(?:system|performance)
       Rx(0, <<Alt(<<<<Lit(<<"o","p","t","i","m","i","z","e">>)>>, <<Lit(<<"s","p","e","e","d">>), Plus(<<Space>>), Lit(<<"u","p">>)>>>>), Plus(<<Space>>), Alt(<<<<Lit(<<"s","y","s","t","e","m">>)>>, <<Lit(<<"p","e","r","f","o","r","m","a","n","c","e">>)>>>>)>>),
       \* (?:diagnose|troubleshoot)\s+(?:system|network|issues?)
       Rx(0, <<Alt(<<<<Lit(<<"d","i","a","g","n","o","s","e">>)>>, <<Lit(<<"t","r","o","u","b","l","e","s","h","o","o","t">>)>>>>), Plus(<<Space>>), Alt(<<<<Lit(<<"s","y","s","t","e","m">>)>>, <<Lit(<<"n","e","t","w","o","r","k">>)>>, <<Lit(<<"i","s","s","u","e">>), Opt(<<Lit(<<"s">>)>>)>>>>)>>),
       \* (?:scan|check)\s+(?:system\s+files?|integrity)
       Rx(0, <<Alt(<<<<Lit(<<"s","c","a","n">>)>>, <<Lit(<<"c","h","e","c","k">>)>>>>), Plus(<<Space>>), Alt(<<<<Lit(<<"s","y","s","t","e","m">>), Plus(<<Space>>), Lit(<<"f","i","l","e">>), Opt(<<Lit(<<"s">>)>>)>>, <<Lit(<<"i","n","t","e","g","r","i","t","y">>)>>>>)>>),
       \* (?:network|ip)\s+(?:config|configuration|info)
       Rx(0, <<Alt(<<<<Lit(<<"n","e","t","w","o","r","k">>)>>, <<Lit(<<"i","p">>)>>>>), Plus(<<Space>>), Alt(<<<<Lit(<<"c","o","n","f","i","g">>)>>, <<Lit(<<"c","o","n","f","i","g","u","r","a","t","i","o","n">>)>>, <<Lit(<<"i","n","f","o">>)>>>>)>>),
       \* (?:ping|test)\s+(?:network|connection|internet)
       Rx(0, <<Alt(<<<<Lit(<<"p","i","n","g">>)>>, <<Lit(<<"t","e","s","t">>)>>>>), Plus(<<Space>>), Alt(<<<<Lit(<<"n","e","t","w","o","r","k">>)>>, <<Lit(<<"c","o","n","n","e","c","t","i","o","n">>)>>, <<Lit(<<"i","n","t","e","r","n","e","t">>)>>>>)>>),
       \* (?:list|show)\s+(?:processes?|running\s+programs?)
       Rx(0, <<Alt(<<<<Lit(<<"l","i","s","t">>)>>, <<Lit(<<"s","h","o","w">>)>>>>), Plus(<<Space>>), Alt(<<<<Lit(<<"p","r","o","c","e","s","s","e">>), Opt(<<Lit(<<"s">>)>>)>>, <<Lit(<<"r","u","n","n","i","n","g">>), Plus(<<Space>>), Lit(<<"p","r","o","g","r","a","m">>), Opt(<<Lit(<<"s">>)>>)>>>>)>>),
       \* systeminfo|ipconfig|ping|tasklist|sfc|dism|chkdsk|netstat
       Rx(0, <<Alt(<<<<Lit(<<"s","y","s","t","e","m","i","n","f","o">>)>>, <<Lit(<<"i","p","c","o","n","f","i","g">>)>>, <<Lit(<<"p","i","n","g">>)>>, <<Lit(<<"t","a","s","k","l","i","s","t">>)>>, <<Lit(<<"s","f","c">>)>>, <<Lit(<<"d","i","s","m">>)>>, <<Lit(<<"c","h","k","d","s","k">>)>>, <<Lit(<<"n","e","t","s","t","a","t">>)>>>>)>>) >>]
  >>

\* the (intent, pattern) pairs in the order the two loops of parse_intent visit them
RECURSIVE FlattenPatterns(_, _)
FlattenPatterns(table, acc) ==
  IF table = <<>> THEN acc
  ELSE FlattenPatterns(Tail(table),
         acc \o [k \in 1..Len(Head(table).patterns) |->
                   [intent |-> Head(table).intent, pattern |-> Head(table).patterns[k]]])

PatternOrder == FlattenPatterns(intent_patterns, <<>>)

\* the index of the last pattern re.search finds in text, 0 if none
LastMatch(text) ==
  LET hits == {k \in 1..Len(PatternOrder) : re_search(PatternOrder[k].pattern, text).ok}
  IN IF hits = {} THEN 0 ELSE CHOOSE k \in hits : \A j \in hits : j <= k

\* the index in PatternOrder of the first pattern re.search finds in text (the
\* pattern at which the loops return), 0 if none
FirstMatch(text) ==
  LET hits == {k \in 1..Len(PatternOrder) : re_search(PatternOrder[k].pattern, text).ok}
  IN IF hits = {} THEN 0 ELSE Least(hits)

\* IntentParser._ai_parse_intent: the JSON object of the LLM's reply if it has
\* one, else the general_question default
ai_parse_intent(user_input, response) ==
  LET parsed == json_loads(ExtractJson(response))
  IN IF parsed.ok THEN parsed.value
     ELSE [intent |-> <<"g","e","n","e","r","a","l","_","q","u","e","s","t","i","o","n">>,
           entity |-> user_input,
           confidence |-> "0.3",
           method |-> "fallback"]

\* IntentParser.parse_intent; response is what ollama_client.generate returns
\* if it is called
parse_intent(raw_input, response) ==
  LET user_input == strip(lower(raw_input))
      k == FirstMatch(user_input)
      pat == PatternOrder[k].pattern
  IN IF k # 0
       THEN [intent |-> PatternOrder[k].intent,
             entity |-> IF pat.groups > 0
                          THEN group(user_input, re_search(pat, user_input), 1)
                          ELSE None,
             confidence |-> "0.9",
             method |-> "pattern"]
       ELSE ai_parse_intent(user_input, response)

\* whether parse_intent asks the LLM for this input
parse_intent_calls_llm(raw_input) == FirstMatch(strip(lower(raw_input))) = 0

(***************************************************************************)
(* Python values that reach the cache, and their serialisation             *)
(*                                                                         *)
(* A value is a record with a tag py.  A handler result may carry a        *)
(* payload: "none", "tuple" (a payload holding a tuple, such as the         *)
(* screen_size of a screen analysis), "list" (the same payload with the     *)
(* tuple as a list) or "opaque" (an object json cannot serialise).          *)
(***************************************************************************)

\* what json.loads(json.dumps(payload)) is: a tuple comes back as a list
JsonPayload(p) == IF p = "tuple" THEN "list" ELSE p

\* a handler result as json.loads(json.dumps(.)) returns it
JsonResult(r) ==
  IF "payload" \in DOMAIN r THEN [r EXCEPT !.payload = JsonPayload(@)] ELSE r

\* the payloads inside a value
Payloads(v) ==
  CASE v.py = "obj" -> {v.payload}
    [] v.py = "response" ->
         {Get(v.execution_results[k], "payload", "none") :
            k \in DOMAIN Get(v, "execution_results", <<>>)}
    [] v.py = "recent" ->
         UNION {{Get(v.items[k].v.execution_results[j], "payload", "none") :
                   j \in DOMAIN Get(v.items[k].v, "execution_results", <<>>)} :
                k \in DOMAIN v.items}
    [] OTHER -> {}

\* json.dumps(v) raises TypeError on an object it cannot serialise
JsonSerialisable(v) == "opaque" \notin Payloads(v)

\* json.loads(json.dumps(v)) for a dict or list v
JsonRoundTrip(v) ==
  CASE v.py = "obj" -> [v EXCEPT !.payload = JsonPayload(@)]
    [] v.py = "response" ->
         IF "execution_results" \in DOMAIN v
           THEN [v EXCEPT !.execution_results =
                   [k \in DOMAIN @ |-> JsonResult(@[k])]]
           ELSE v
    [] v.py = "recent" ->
         [v EXCEPT !.items =
            [k \in DOMAIN @ |->
               [@[k] EXCEPT !.v =
                  IF "execution_results" \in DOMAIN @
                    THEN [@ EXCEPT !.execution_results =
                            [j \in DOMAIN @ |-> JsonResult(@[j])]]
                    ELSE @]]]
    [] OTHER -> v

\* isinstance(value, (dict, list)): these are written as JSON, the rest pickled
IsDictOrList(v) == v.py \in {"obj", "response", "recent", "ai", "list"}

\* cache_file.stat().st_size of the written value, in the units of MaxSizeBytes
SizeOf(v) == IF "size" \in DOMAIN v THEN v.size ELSE 1

(***************************************************************************)
(* LocalCache                                                              *)
(*                                                                         *)
(* metadata["entries"] is a dict, which keeps insertion order: a sequence   *)
(* of entries.  An entry carries the content of its cache file (data).      *)
(***************************************************************************)

\* LocalCache.max_size_bytes (100 MB in the source) in model units
MaxSizeBytes == 10

\* LocalCache._generate_key: md5(f"{namespace}:{key}"), md5 taken as injective
\* on the combined text
generate_key(namespace, key) == namespace \o <<":">> \o key

\* position of cache_key in entries, 0 when absent
EntryIndex(entries, cache_key) ==
  LET hits == {k \in DOMAIN entries : entries[k].cache_key = cache_key}
  IN IF hits = {} THEN 0 ELSE Least(hits)

\* LocalCache._remove_entry: unlink the file, delete the metadata entry
remove_entry(entries, cache_key) ==
  LET keep == {k \in DOMAIN entries : entries[k].cache_key # cache_key}
      RECURSIVE Build(_, _)
      Build(k, acc) ==
        IF k > Len(entries) THEN acc
        ELSE Build(k + 1, IF k \in keep THEN Append(acc, entries[k]) ELSE acc)
  IN Build(1, <<>>)

\* sum(entry.get("size", 0) for entry in entries.values())
RECURSIVE TotalSize(_)
TotalSize(entries) ==
  IF entries = <<>> THEN 0 ELSE Head(entries).size + TotalSize(Tail(entries))

\* sorted(..., reverse=True): newest first
RECURSIVE SortNewestFirst(_)
SortNewestFirst(entries) ==
  IF entries = <<>> THEN <<>>
  ELSE LET rest == SortNewestFirst(SubSeq(entries, 1, Len(entries) - 1))
           e == entries[Len(entries)]
           n == Cardinality({k \in DOMAIN rest : rest[k].created >= e.created})
       IN SubSeq(rest, 1, n) \o <<e>> \o SubSeq(rest, n + 1, Len(rest))

\* sorted(entries.items(), key=created): oldest first, equal keys in dict order
RECURSIVE SortByCreated(_)
SortByCreated(entries) ==
  IF entries = <<>> THEN <<>>
  ELSE LET rest == SortByCreated(SubSeq(entries, 1, Len(entries) - 1))
           e == entries[Len(entries)]
           \* e goes after every element created no later than it
           n == Cardinality({k \in DOMAIN rest : rest[k].created <= e.created})
       IN SubSeq(rest, 1, n) \o <<e>> \o SubSeq(rest, n + 1, Len(rest))

\* the loop of _enforce_size_limit: remove sorted[k], sorted[k+1], ... until the
\* total is at most 80% of the budget
RECURSIVE EvictFrom(_, _, _)
EvictFrom(entries, sorted, k) ==
  IF k > Len(sorted) THEN entries
  ELSE LET after == remove_entry(entries, sorted[k].cache_key)
       IN IF 10 * TotalSize(after) <= 8 * MaxSizeBytes
            THEN after
            ELSE EvictFrom(after, sorted, k + 1)

\* LocalCache._enforce_size_limit
enforce_size_limit(entries) ==
  IF TotalSize(entries) <= MaxSizeBytes THEN entries
  ELSE EvictFrom(entries, SortByCreated(entries), 1)

\* metadata["entries"][cache_key] = entry: a new key goes last, an existing key
\* keeps its place
PutEntry(entries, entry) ==
  LET k == EntryIndex(entries, entry.cache_key)
  IN IF k = 0 THEN Append(entries, entry) ELSE [entries EXCEPT ![k] = entry]

\* LocalCache.set at time now: the entries afterwards.  A value json cannot
\* serialise raises before anything is written, and the exception is logged.
cache_set(entries, namespace, key, value, ttl_seconds, now) ==
  LET cache_key == generate_key(namespace, key)
      asJson == IsDictOrList(value)
  IN IF asJson /\ ~JsonSerialisable(value) THEN entries
     ELSE enforce_size_limit(
            PutEntry(entries,
              [cache_key |-> cache_key,
               namespace |-> namespace,
               key |-> key,
               created |-> now,
               expires |-> now + ttl_seconds,
               serialization |-> IF asJson THEN "json" ELSE "pickle",
               size |-> SizeOf(value),
               data |-> IF asJson THEN JsonRoundTrip(value) ELSE value]))

\* LocalCache.get at time now: the value returned (None if absent or expired)
cache_get(entries, namespace, key, now) ==
  LET k == EntryIndex(entries, generate_key(namespace, key))
  IN IF k = 0 THEN NoValue
     ELSE IF now > entries[k].expires THEN NoValue
     ELSE entries[k].data

\* LocalCache.get with the expiry test of the removal inverted
cache_get_entries_inverted(entries, namespace, key, now) ==
  LET cache_key == generate_key(namespace, key)
      k == EntryIndex(entries, cache_key)
  IN IF k # 0 /\ now <= entries[k].expires
       THEN remove_entry(entries, cache_key)
       ELSE entries

\* LocalCache.get at time now: the entries afterwards (an expired entry is removed)
cache_get_entries(entries, namespace, key, now) ==
  LET cache_key == generate_key(namespace, key)
      k == EntryIndex(entries, cache_key)
  IN IF k # 0 /\ now > entries[k].expires
       THEN remove_entry(entries, cache_key)
       ELSE entries

\* LocalCache.clear_namespace
clear_namespace(entries, namespace) ==
  LET keep == {k \in DOMAIN entries : entries[k].namespace # namespace}
      RECURSIVE Build(_, _)
      Build(k, acc) ==
        IF k > Len(entries) THEN acc
        ELSE Build(k + 1, IF k \in keep THEN Append(acc, entries[k]) ELSE acc)
  IN Build(1, <<>>)

(***************************************************************************)
(* TaskExecutor: the bypass checks                                         *)
(***************************************************************************)

\* whether re.search finds one of the patterns in s
AnySearch(patterns, s) == \E k \in DOMAIN patterns : re_search(patterns[k], s).ok

\* whether one of the words is a substring of s
AnyIn(words, s) == \E k \in DOMAIN words : Contains(s, words[k])

\* _is_negative_response without its clarification patterns
no_clarification_patterns == <<>>

\* the clarification patterns of _is_negative_response
clarification_patterns ==
  << \* r'\bno\s+but\b'
     Rx(0, <<Wb, Lit(<<"n","o">>), Plus(<<Space>>), Lit(<<"b","u","t">>), Wb>>),
     \* r'\bno\s+instead\b'
     Rx(0, <<Wb, Lit(<<"n","o">>), Plus(<<Space>>), Lit(<<"i","n","s","t","e","a","d">>), Wb>>),
     \* r'\bno\s+please\b'
     Rx(0, <<Wb, Lit(<<"n","o">>), Plus(<<Space>>), Lit(<<"p","l","e","a","s","e">>), Wb>>),
     \* r'\bno\s+wait\b'
     Rx(0, <<Wb, Lit(<<"n","o">>), Plus(<<Space>>), Lit(<<"w","a","i","t">>), Wb>>) >>

negative_patterns ==
  << Rx(0, <<Wb, Lit(<<"n","o">>), Wb>>), Rx(0, <<Wb, Lit(<<"n","o","p","e">>), Wb>>), Rx(0, <<Wb, Lit(<<"n","a","h">>), Wb>>), Rx(0, <<Wb, Lit(<<"n","o","t">>), Wb>>), Rx(0, <<Wb, Lit(<<"d","o","n","'","t">>), Wb>>),
     Rx(0, <<Wb, Lit(<<"c","a","n","c","e","l">>), Wb>>), Rx(0, <<Wb, Lit(<<"s","k","i","p">>), Wb>>), Rx(0, <<Wb, Lit(<<"n","e","v","e","r"," ","m","i","n","d">>), Wb>>), Rx(0, <<Wb, Lit(<<"n","o"," ","t","h","a","n","k","s">>), Wb>>) >>

\* TaskExecutor._is_negative_response
is_negative_response(user_input) ==
  LET user_lower == strip(lower(user_input))
  IN IF AnySearch(clarification_patterns, user_lower) THEN FALSE
     ELSE IF Len(split(user_input)) <= 3
       THEN AnySearch(negative_patterns, user_lower)
       ELSE FALSE

negative_words ==
  << (<<"n","o">>), (<<"n","o","p","e">>), (<<"n","a","h">>), (<<"n","o","t">>), (<<"d","o","n","'","t">>), (<<"c","a","n","c","e","l">>), (<<"s","k","i","p">>), (<<"n","e","v","e","r"," ","m","i","n","d">>) >>

agreement_words ==
  << (<<"y","e","s">>), (<<"y","e","s"," ","p","l","e","a","s","e">>), (<<"s","u","r","e">>), (<<"o","k">>), (<<"o","k","a","y">>), (<<"y","e","p">>), (<<"y","e","a","h">>), (<<"p","l","e","a","s","e">>), (<<"d","o"," ","i","t">>) >>

\* TaskExecutor._is_agreement_response, read without its guard on negative words
is_agreement_ignoring_negatives(user_input) ==
  AnyIn(agreement_words, strip(lower(user_input))) /\ Len(split(user_input)) <= 3

\* TaskExecutor._is_agreement_response
is_agreement_response(user_input) ==
  LET user_lower == strip(lower(user_input))
  IN IF AnyIn(negative_words, user_lower) THEN FALSE
     ELSE AnyIn(agreement_words, user_lower) /\ Len(split(user_input)) <= 3

\* TaskExecutor.max_context_history
max_context_history == 5

\* append to context_history, dropping the newest entry beyond twice max_context_history
PushContextDropsNewest(history, entry) ==
  LET h == Append(history, entry)
  IN IF Len(h) > max_context_history * 2 THEN SubSeq(h, 1, Len(h) - 1) ELSE h

\* append to context_history, dropping the oldest entry beyond twice max_context_history
PushContext(history, entry) ==
  LET h == Append(history, entry)
  IN IF Len(h) > max_context_history * 2 THEN Tail(h) ELSE h

\* suggestions[:2]
FirstTwo(xs) == SubSeq(xs, 1, IF Len(xs) < 2 THEN Len(xs) ELSE 2)

\* TaskExecutor._store_assistant_context: the context_history afterwards
store_assistant_context(history, result) ==
  LET assistant_msg == Get(result, "message", <<>>)
      suggestions == Get(result, "suggestions", <<>>)
      main_response == BeforeFirst(assistant_msg, (<<"\n","\n","<robot>">>))
      context_entry ==
        (<<"A","s","s","i","s","t","a","n","t",":"," ">>) \o main_response \o
        (IF suggestions # <<>>
           THEN (<<" ","[","S","u","g","g","e","s","t","i","o","n","s",":"," ">>) \o Join((<<";"," ">>), FirstTwo(suggestions)) \o (<<"]">>)
           ELSE <<>>)
  IN IF assistant_msg # <<>> THEN PushContext(history, context_entry) ELSE history

\* the fixed response of TaskExecutor._handle_negative_response
negative_response ==
  [py |-> "response",
   status |-> "success",
   message |-> (<<"<thumbsup>"," ","N","o"," ","p","r","o","b","l","e","m","!"," ","L","e","t"," ","m","e"," ","k","n","o","w"," ","i","f"," ","y","o","u"," ","n","e","e","d"," ","a","n","y","t","h","i","n","g"," ","e","l","s","e",".">>),
   execution_results |->
     << [status |-> "success",
         message |-> (<<"U","s","e","r"," ","d","e","c","l","i","n","e","d"," ","s","u","g","g","e","s","t","i","o","n","s">>),
         reason |-> (<<"U","s","e","r"," ","p","r","o","v","i","d","e","d"," ","n","e","g","a","t","i","v","e"," ","r","e","s","p","o","n","s","e"," ","t","o"," ","s","u","g","g","e","s","t","i","o","n","s">>)] >>,
   suggestions |->
     << (<<"F","e","e","l"," ","f","r","e","e"," ","t","o"," ","a","s","k"," ","f","o","r"," ","h","e","l","p"," ","w","i","t","h"," ","a","n","y"," ","o","t","h","e","r"," ","t","a","s","k","s">>),
        (<<"I"," ","c","a","n"," ","h","e","l","p"," ","w","i","t","h"," ","f","i","l","e"," ","o","p","e","r","a","t","i","o","n","s",","," ","o","p","e","n","i","n","g"," ","a","p","p","l","i","c","a","t","i","o","n","s",","," ","o","r"," ","s","y","s","t","e","m"," ","t","a","s","k","s">>) >>,
   type |-> "conversational_response"]

\* self.context_history[-3:]
LastThree(history) ==
  SubSeq(history, IF Len(history) > 3 THEN Len(history) - 2 ELSE 1, Len(history))

\* the cue of _handle_agreement_response without its second test
AgreementCueWithoutWrite(history) ==
  \E k \in DOMAIN LastThree(history) :
    Contains(lower(LastThree(history)[k]), (<<"c","r","e","a","t","e"," ","a"," ","t","e","s","t"," ","f","i","l","e">>))

\* whether _handle_agreement_response finds a file-creation cue in the recent context
AgreementCue(history) ==
  \E k \in DOMAIN LastThree(history) :
    \/ Contains(lower(LastThree(history)[k]), (<<"c","r","e","a","t","e"," ","a"," ","t","e","s","t"," ","f","i","l","e">>))
    \/ Contains(lower(LastThree(history)[k]), (<<"w","r","i","t","e">>))

\* system_tools.create_file(file_path, content); written is whether the write worked
create_file(file_path, written) ==
  IF written
    THEN [status |-> "success", message |-> (<<"C","r","e","a","t","e","d"," ","f","i","l","e",":"," ">>) \o file_path]
    ELSE [status |-> "error", message |-> (<<"F","a","i","l","e","d"," ","t","o"," ","c","r","e","a","t","e"," ","f","i","l","e",":"," ","d","e","n","i","e","d">>)]

\* TaskExecutor._handle_agreement_response: the response, NoValue when the
\* recent context holds no cue
handle_agreement_response(history, written) ==
  LET result == create_file((<<"t","e","s","t",".","t","x","t">>), written)
  IN IF ~AgreementCue(history) THEN NoValue
     ELSE IF result.status = "success"
       THEN [py |-> "response",
             status |-> "success",
             message |-> (<<"<check>"," ">>) \o result.message \o (<<" ","w","i","t","h"," ","c","o","n","t","e","n","t",":"," ","'","h","e","l","l","o"," ","w","o","r","l","d","'">>),
             execution_results |->
               << [status |-> "success",
                   message |-> result.message \o (<<" ","w","i","t","h"," ","c","o","n","t","e","n","t",":"," ","'","h","e","l","l","o"," ","w","o","r","l","d","'">>),
                   reason |-> (<<"U","s","e","r"," ","a","g","r","e","e","d"," ","t","o"," ","f","i","l","e"," ","c","r","e","a","t","i","o","n"," ","s","u","g","g","e","s","t","i","o","n">>)] >>,
             suggestions |->
               << (<<"W","o","u","l","d"," ","y","o","u"," ","l","i","k","e"," ","t","o"," ","o","p","e","n"," ","t","h","e"," ","f","i","l","e"," ","i","n"," ","N","o","t","e","p","a","d","?">>),
                  (<<"D","o"," ","y","o","u"," ","n","e","e","d"," ","a","n","y"," ","o","t","h","e","r"," ","f","i","l","e","s"," ","c","r","e","a","t","e","d","?">>) >>,
             type |-> "single_action_execution"]
       ELSE [py |-> "response",
             status |-> "error",
             message |-> (<<"<cross>"," ","F","a","i","l","e","d"," ","t","o"," ","c","r","e","a","t","e"," ","f","i","l","e",":"," ">>) \o result.message,
             execution_results |->
               << [status |-> "error",
                   message |-> (<<"F","a","i","l","e","d"," ","t","o"," ","c","r","e","a","t","e"," ","f","i","l","e",":"," ">>) \o result.message,
                   reason |-> (<<"F","i","l","e"," ","c","r","e","a","t","i","o","n"," ","f","a","i","l","e","d">>)] >>,
             type |-> "single_action_execution"]

(***************************************************************************)
(* TaskExecutor: the response cache                                        *)
(***************************************************************************)

\* ttl_seconds of a task response
TaskResponseTtl == 3600

\* ttl_seconds of the recent_tasks table
RecentTasksTtl == 86400

\* ttl_hours of a cached plan
PlanTtlHours == 2

\* TaskExecutor._is_similar_task
is_similar_task(input1, input2) ==
  LET words1 == Range(split(input1))
      words2 == Range(split(input2))
      overlap == Cardinality(words1 \cap words2)
      smaller == IF Cardinality(words1) < Cardinality(words2)
                   THEN Cardinality(words1) ELSE Cardinality(words2)
  IN IF words1 = {} \/ words2 = {} THEN FALSE
     \* overlap / min(len(words1), len(words2)) > 0.7
     ELSE 10 * overlap > 7 * smaller

\* TaskExecutor._check_cache at time now: the response found (NoValue if none)
\* and the cache entries afterwards
check_cache(entries, user_input, now) ==
  LET normalized_input == strip(lower(user_input))
      cached == cache_get(entries, (<<"t","a","s","k","_","r","e","s","p","o","n","s","e","s">>), normalized_input, now)
      entries1 == cache_get_entries(entries, (<<"t","a","s","k","_","r","e","s","p","o","n","s","e","s">>), normalized_input, now)
      similar_tasks == cache_get(entries1, (<<"p","a","t","t","e","r","n","s">>), (<<"r","e","c","e","n","t","_","t","a","s","k","s">>), now)
      entries2 == cache_get_entries(entries1, (<<"p","a","t","t","e","r","n","s">>), (<<"r","e","c","e","n","t","_","t","a","s","k","s">>), now)
      hits == IF similar_tasks = NoValue THEN {}
              ELSE {k \in DOMAIN similar_tasks.items :
                      is_similar_task(normalized_input, similar_tasks.items[k].k)}
  IN IF cached # NoValue THEN [response |-> cached, entries |-> entries1]
     ELSE IF hits # {}
       THEN [response |-> similar_tasks.items[Least(hits)].v, entries |-> entries2]
       ELSE [response |-> NoValue, entries |-> entries2]

\* recent_tasks[key] = value: an existing key keeps its place, a new one goes last
DictPut(items, key, value) ==
  LET at == {k \in DOMAIN items : items[k].k = key}
  IN IF at = {} THEN Append(items, [k |-> key, v |-> value])
     ELSE [items EXCEPT ![Least(at)] = [k |-> key, v |-> value]]

\* the number of recent tasks kept
MaxRecentTasks == 50

\* the recent_tasks table after _cache_response has put the response in it:
\* recent_tasks[normalized_input] = response, and beyond 50 entries the first
\* key of the dict goes
recent_tasks_put(recent_tasks, normalized_input, response) ==
  IF Len(DictPut(recent_tasks, normalized_input, response)) > MaxRecentTasks
    \* del recent_tasks[next(iter(recent_tasks))]
    THEN Tail(DictPut(recent_tasks, normalized_input, response))
    ELSE DictPut(recent_tasks, normalized_input, response)

\* _cache_response keyed by the input as typed, not lower-cased and trimmed
cache_response_as_typed(entries, user_input, response, now) ==
  LET entries1 == cache_set(entries, (<<"t","a","s","k","_","r","e","s","p","o","n","s","e","s">>), user_input, response,
                            TaskResponseTtl, now)
      got == cache_get(entries1, (<<"p","a","t","t","e","r","n","s">>), (<<"r","e","c","e","n","t","_","t","a","s","k","s">>), now)
      entries2 == cache_get_entries(entries1, (<<"p","a","t","t","e","r","n","s">>), (<<"r","e","c","e","n","t","_","t","a","s","k","s">>), now)
      recent_tasks == IF got = NoValue THEN <<>> ELSE got.items
      updated == DictPut(recent_tasks, user_input, response)
      kept == IF Len(updated) > MaxRecentTasks THEN Tail(updated) ELSE updated
  IN cache_set(entries2, (<<"p","a","t","t","e","r","n","s">>), (<<"r","e","c","e","n","t","_","t","a","s","k","s">>),
               [py |-> "recent", items |-> kept], RecentTasksTtl, now)

\* TaskExecutor._cache_response at time now: the cache entries afterwards
cache_response(entries, user_input, response, now) ==
  LET normalized_input == strip(lower(user_input))
      entries1 == cache_set(entries, (<<"t","a","s","k","_","r","e","s","p","o","n","s","e","s">>), normalized_input, response,
                            TaskResponseTtl, now)
      got == cache_get(entries1, (<<"p","a","t","t","e","r","n","s">>), (<<"r","e","c","e","n","t","_","t","a","s","k","s">>), now)
      entries2 == cache_get_entries(entries1, (<<"p","a","t","t","e","r","n","s">>), (<<"r","e","c","e","n","t","_","t","a","s","k","s">>), now)
      recent_tasks == IF got = NoValue THEN <<>> ELSE got.items
      kept == recent_tasks_put(recent_tasks, normalized_input, response)
  IN cache_set(entries2, (<<"p","a","t","t","e","r","n","s">>), (<<"r","e","c","e","n","t","_","t","a","s","k","s">>),
               [py |-> "recent", items |-> kept], RecentTasksTtl, now)

(***************************************************************************)
(* TaskExecutor: the planner                                               *)
(***************************************************************************)

\* AIResponseCache: md5(f"{system_prompt}|{prompt}"), md5 taken as injective
prompt_hash(prompt, system_prompt) == system_prompt \o (<<"|">>) \o prompt

\* AIResponseCache.get_cached_response: the cached text, <<>> when there is none
get_cached_response(entries, prompt, system_prompt, now) ==
  LET cached_data == cache_get(entries, (<<"a","i","_","r","e","s","p","o","n","s","e","s">>),
                               prompt_hash(prompt, system_prompt), now)
  IN IF cached_data # NoValue THEN cached_data.response ELSE <<>>

\* cache_response with the TTL taken as minutes
cache_ai_response_minutes(entries, prompt, system_prompt, response, ttl_hours, now) ==
  cache_set(entries, (<<"a","i","_","r","e","s","p","o","n","s","e","s">>), prompt_hash(prompt, system_prompt),
            [py |-> "ai", prompt |-> prompt, system_prompt |-> system_prompt,
             response |-> response],
            ttl_hours * 60, now)

\* AIResponseCache.cache_response
cache_ai_response(entries, prompt, system_prompt, response, ttl_hours, now) ==
  cache_set(entries, (<<"a","i","_","r","e","s","p","o","n","s","e","s">>), prompt_hash(prompt, system_prompt),
            [py |-> "ai", prompt |-> prompt, system_prompt |-> system_prompt,
             response |-> response],
            ttl_hours * 3600, now)

\* the plan _analyze_and_plan builds from the Pattern Matcher's answer
fallback_plan(intent_data) ==
  [py |-> "dict",
   understanding |-> (<<"S","i","m","p","l","e"," ","i","n","t","e","n","t",":"," ">>) \o
                     (IF Get(intent_data, "intent", None) = None
                        THEN (<<"N","o","n","e">>) ELSE Get(intent_data, "intent", None)),
   requires_execution |-> Get(intent_data, "intent", None) # (<<"g","e","n","e","r","a","l","_","q","u","e","s","t","i","o","n">>),
   suggested_actions |->
     << [py |-> "dict",
         action |-> Get(intent_data, "intent", None),
         target |-> Get(intent_data, "entity", None),
         reason |-> (<<"P","a","t","t","e","r","n"," ","m","a","t","c","h","e","d">>)] >>,
   proactive_suggestions |-> <<>>,
   response |-> (<<"I","'","l","l"," ","h","e","l","p"," ","y","o","u"," ","w","i","t","h"," ","t","h","a","t",".">>)]

\* the try block of _analyze_and_plan on the LLM's reply: "plan" with the parsed
\* plan, "no_json" when the reply has no {...} span, "raised" when json.loads
\* raises
plan_attempt(reply) ==
  LET json_match == ExtractJson(reply)
      parsed == json_loads(json_match)
  IN IF json_match = <<>> THEN [outcome |-> "no_json", plan |-> NoValue]
     ELSE IF parsed.ok THEN [outcome |-> "plan", plan |-> parsed.value]
     ELSE [outcome |-> "raised", plan |-> NoValue]

\* a try block without its except clause
planning_uncaught(attempt) == attempt

\* except Exception as e: the error is logged and planning goes on to the fallback
planning_except(attempt) ==
  IF attempt.outcome = "raised" THEN [attempt EXCEPT !.outcome = "logged"] ELSE attempt

\* TaskExecutor._analyze_and_plan at time now.  reply is what the LLM answers to
\* the planning prompt; intent.data is what parse_intent(user_input) returns
\* and intent.asked whether it asks the LLM.
analyze_and_plan(entries, user_input, now, reply, intent) ==
  LET cached_plan == get_cached_response(entries, user_input, (<<"p","l","a","n","n","i","n","g","_","s","y","s","t","e","m">>), now)
      entries0 == cache_get_entries(entries, (<<"a","i","_","r","e","s","p","o","n","s","e","s">>),
                                    prompt_hash(user_input, (<<"p","l","a","n","n","i","n","g","_","s","y","s","t","e","m">>)), now)
      attempt == planning_except(plan_attempt(reply))
  IN IF cached_plan # <<>> /\ json_loads(cached_plan).ok
       THEN [raised |-> FALSE, plan |-> json_loads(cached_plan).value,
             entries |-> entries0, ai_calls |-> 0, llm_calls |-> 0, source |-> "cache"]
     ELSE IF attempt.outcome = "plan"
       THEN [raised |-> FALSE, plan |-> attempt.plan,
             entries |-> cache_ai_response(entries0, user_input, (<<"p","l","a","n","n","i","n","g","_","s","y","s","t","e","m">>),
                                           <<Json(attempt.plan)>>, PlanTtlHours, now),
             ai_calls |-> 1, llm_calls |-> 1, source |-> "llm"]
     ELSE IF attempt.outcome = "raised"
       THEN [raised |-> TRUE, plan |-> NoValue, entries |-> entries0,
             ai_calls |-> 1, llm_calls |-> 1, source |-> "none"]
     ELSE [raised |-> FALSE,
           plan |-> fallback_plan(intent.data),
           entries |-> entries0, ai_calls |-> 1,
           llm_calls |-> IF intent.asked THEN 2 ELSE 1,
           source |-> "fallback"]

(***************************************************************************)
(* TaskExecutor: the dispatcher, its handlers and the composer             *)
(*                                                                         *)
(* A JSON value of a plan carries a tag py: "dict" for an object, "str"     *)
(* for a string standing where an object is expected.  A target is a str,   *)
(* None, or Number (a JSON number).                                         *)
(***************************************************************************)

\* a JSON number where a str is expected; no str equals it
Number == <<"<number>">>

IsStr(x) == x # None /\ x # Number

\* str(x) of a str, None or Number
py_str(x) == IF x = None THEN (<<"N","o","n","e">>) ELSE IF x = Number THEN (<<"5">>) ELSE x

DigitSeq == <<"0","1","2","3","4","5","6","7","8","9">>

\* str(n) of an int 0 <= n <= 99
str_int(n) ==
  IF n < 10 THEN <<DigitSeq[n + 1]>>
  ELSE <<DigitSeq[(n \div 10) + 1], DigitSeq[(n % 10) + 1]>>

\* _assess_safety_level: the risk class of a request text
assess_safety_level(user_request) ==
  IF AnyIn(<<(<<"d","e","l","e","t","e">>), (<<"f","o","r","m","a","t">>), (<<"r","e","g","i","s","t","r","y">>), (<<"s","y","s","t","e","m"," ","f","i","l","e">>), (<<"b","o","o","t">>), (<<"p","a","r","t","i","t","i","o","n">>),
             (<<"d","r","i","v","e","r">>), (<<"u","n","i","n","s","t","a","l","l">>), (<<"r","e","m","o","v","e">>)>>, lower(user_request))
    THEN "high_risk"
  ELSE IF AnyIn(<<(<<"m","o","d","i","f","y">>), (<<"c","h","a","n","g","e">>), (<<"e","d","i","t">>), (<<"c","o","n","f","i","g","u","r","e">>), (<<"i","n","s","t","a","l","l">>), (<<"u","p","d","a","t","e">>)>>,
                lower(user_request))
    THEN "medium_risk"
  ELSE "safe"

\* what the environment can make of a handler's call: an application opens or
\* does not; a shell command ends with exit code 0 or another, runs into its
\* timeout, or cannot be started
HandlerOutcomes(action_item) ==
  IF Get(action_item, "action", None) = (<<"o","p","e","n","_","a","p","p">>) THEN {"ok", "fail"}
  ELSE IF Get(action_item, "action", None) = (<<"r","u","n","_","c","o","m","m","a","n","d">>) THEN {"ok", "fail", "timeout", "raise"}
  ELSE {"ok"}

\* the text a windows_command action asks for: target, or command, or request
WindowsRequest(action_item) ==
  IF Truthy(Get(action_item, "target", None)) THEN action_item.target
  ELSE IF Truthy(Get(action_item, "command", None)) THEN action_item.command
  ELSE Get(action_item, "request", <<>>)

\* system_tools.execute_windows_command_ai_guided: analyze_request returns an
\* analysis without the key ai_guided_commands, so no command is run; a
\* request that is no str raises in analyze_request, which is caught
execute_windows_command_ai_guided(user_request) ==
  IF IsStr(user_request)
    THEN [success |-> FALSE,
          message |-> (<<"U","n","i","v","e","r","s","a","l"," ","E","x","p","e","r","t"," ","c","o","u","l","d"," ","n","o","t"," ","g","e","n","e","r","a","t","e"," ","a","p","p","r","o","p","r","i","a","t","e"," ","c","o","m","m","a","n","d","s"," ","f","o","r"," ","t","h","i","s"," ","r","e","q","u","e","s","t">>),
          analysis |-> [risk_assessment |->
                          [safety_level |-> assess_safety_level(user_request),
                           confirmation_required |->
                             assess_safety_level(user_request) = "high_risk"]]]
    ELSE [success |-> FALSE,
          message |-> (<<"U","n","i","v","e","r","s","a","l"," ","W","i","n","d","o","w","s"," ","E","x","p","e","r","t"," ","e","n","c","o","u","n","t","e","r","e","d"," ","a","n"," ","e","r","r","o","r",":"," ","'","i","n","t","'"," ","o","b","j","e","c","t"," ","h","a","s"," ","n","o"," ","a","t","t","r","i","b","u","t","e"," ","'","l","o","w","e","r","'","."," ","T","h","e"," ","s","y","s","t","e","m"," ","c","a","n"," ","h","a","n","d","l","e"," ","a","n","y"," ","W","i","n","d","o","w","s"," ","s","c","e","n","a","r","i","o"," ","-"," ","p","l","e","a","s","e"," ","t","r","y"," ","r","e","p","h","r","a","s","i","n","g"," ","y","o","u","r"," ","r","e","q","u","e","s","t",".">>),
          error |-> (<<"'","i","n","t","'"," ","o","b","j","e","c","t"," ","h","a","s"," ","n","o"," ","a","t","t","r","i","b","u","t","e"," ","'","l","o","w","e","r","'">>)]

\* system_tools.execute_windows_command: _determine_execution_mode reads
\* analysis['scenario']['user_intent'], a key the analysis does not have, and
\* the KeyError is caught (as is the error of a request that is no str)
execute_windows_command(user_request) ==
  [status |-> "error",
   message |-> (<<"<cross>"," ","W","i","n","d","o","w","s"," ","E","x","p","e","r","t"," ","E","r","r","o","r",":"," ">>)
               \o (IF IsStr(user_request) THEN (<<"'","u","s","e","r","_","i","n","t","e","n","t","'">>)
                   ELSE (<<"'","i","n","t","'"," ","o","b","j","e","c","t"," ","h","a","s"," ","n","o"," ","a","t","t","r","i","b","u","t","e"," ","'","l","o","w","e","r","'">>))
               \o (<<"\n","\n","P","l","e","a","s","e"," ","t","r","y"," ","r","e","p","h","r","a","s","i","n","g"," ","y","o","u","r"," ","r","e","q","u","e","s","t"," ","o","r"," ","c","o","n","t","a","c","t"," ","s","u","p","p","o","r","t",".">>)]

\* TaskExecutor._execute_windows_command
execute_windows_command_action(action_item) ==
  LET request == WindowsRequest(action_item)
      result == execute_windows_command_ai_guided(request)
  IN IF Get(result, "success", FALSE)
       THEN [status |-> "success", message |-> result.message]
     ELSE IF execute_windows_command(request).status = "success"
       THEN [status |-> "success",
             message |-> (<<"E","x","e","c","u","t","e","d"," ","u","s","i","n","g"," ","f","a","l","l","b","a","c","k"," ","m","e","t","h","o","d",":"," ">>)
                         \o execute_windows_command(request).message]
     ELSE [status |-> "error",
           message |-> (<<"C","o","m","m","a","n","d"," ","f","a","i","l","e","d",":"," ">>) \o result.message,
           details |-> Get(result, "error", <<>>),
           analysis |-> Get(result, "analysis", NoValue)]

\* system_tools.run_command
run_command(command, outcome) ==
  IF outcome \in {"ok", "fail"}
    THEN [status |-> "success", return_code |-> IF outcome = "ok" THEN 0 ELSE 1,
          stdout |-> <<>>, stderr |-> <<>>]
  ELSE IF outcome = "timeout"
    THEN [status |-> "error", message |-> (<<"C","o","m","m","a","n","d"," ","t","i","m","e","d"," ","o","u","t">>)]
  ELSE [status |-> "error", message |-> (<<"F","a","i","l","e","d"," ","t","o"," ","r","u","n"," ","c","o","m","m","a","n","d",":"," ","[","E","r","r","n","o"," ","1","2","]">>)]

\* the else branch of the dispatcher with an error in place of the note
not_implemented_error(action) ==
  [status |-> "error",
   message |-> (<<"A","c","t","i","o","n"," ","'">>) \o py_str(action) \o (<<"'"," ","p","l","a","n","n","e","d"," ","b","u","t"," ","n","o","t"," ","y","e","t"," ","i","m","p","l","e","m","e","n","t","e","d">>)]

\* the else branch of the dispatcher: an action name it does not know
not_implemented(action) ==
  [status |-> "info",
   message |-> (<<"A","c","t","i","o","n"," ","'">>) \o py_str(action) \o (<<"'"," ","p","l","a","n","n","e","d"," ","b","u","t"," ","n","o","t"," ","y","e","t"," ","i","m","p","l","e","m","e","n","t","e","d">>)]

\* whether local_cache holds a live launch record for the application
LaunchCached(entries, app_name, now) ==
  cache_get(entries, (<<"a","p","p","_","l","a","u","n","c","h","e","s">>), lower(app_name), now) # NoValue

\* a handler's call for a dict action item: raised with the error, or the result.
\* open_app is _execute_open_app with system_tools.open_application,
\* list_directory is _execute_list_directory with system_tools.list_directory,
\* screen_analysis is _execute_screen_analysis; any other action is the
\* dispatcher's else branch.
execute_action(action_item, outcome, entries, now) ==
  LET action == Get(action_item, "action", None)
      target == Get(action_item, "target", None)
  IN IF action = (<<"o","p","e","n","_","a","p","p">>)
       THEN IF ~Truthy(target)
              THEN [raised |-> FALSE, error |-> <<>>,
                    result |-> [status |-> "error", message |-> (<<"N","o"," ","a","p","p","l","i","c","a","t","i","o","n"," ","s","p","e","c","i","f","i","e","d">>)]]
            ELSE IF ~IsStr(target)
              THEN [raised |-> TRUE, error |-> (<<"'","i","n","t","'"," ","o","b","j","e","c","t"," ","h","a","s"," ","n","o"," ","a","t","t","r","i","b","u","t","e"," ","'","l","o","w","e","r","'">>),
                    result |-> NoValue]
            ELSE IF outcome = "ok" /\ LaunchCached(entries, target, now)
              THEN [raised |-> FALSE, error |-> <<>>,
                    result |-> [success |-> TRUE,
                                message |-> target \o (<<" ","o","p","e","n","e","d"," ","s","u","c","c","e","s","s","f","u","l","l","y"," ","(","c","a","c","h","e","d"," ","m","e","t","h","o","d",")">>)]]
            ELSE IF outcome = "ok"
              THEN [raised |-> FALSE, error |-> <<>>,
                    result |-> [success |-> TRUE,
                                message |-> (<<"O","p","e","n","e","d"," ">>) \o target \o (<<" ","u","s","i","n","g"," ","d","i","r","e","c","t","_","e","x","e","c","u","t","a","b","l","e">>),
                                method |-> (<<"d","i","r","e","c","t","_","e","x","e","c","u","t","a","b","l","e">>)]]
            ELSE [raised |-> FALSE, error |-> <<>>,
                  result |-> [success |-> FALSE,
                              message |-> (<<"F","a","i","l","e","d"," ","t","o"," ","o","p","e","n"," ">>) \o target \o (<<"."," ","L","a","s","t"," ","e","r","r","o","r",":"," ","N","o","n","e">>)]]
     ELSE IF action = (<<"l","i","s","t","_","d","i","r","e","c","t","o","r","y">>)
       THEN IF Truthy(target) /\ ~IsStr(target)
              THEN [raised |-> TRUE, error |-> (<<"'","i","n","t","'"," ","o","b","j","e","c","t"," ","h","a","s"," ","n","o"," ","a","t","t","r","i","b","u","t","e"," ","'","l","o","w","e","r","'">>),
                    result |-> NoValue]
            ELSE [raised |-> FALSE, error |-> <<>>,
                  result |-> [status |-> "success", items |-> <<>>, count |-> 0]]
     ELSE IF action = (<<"s","c","r","e","e","n","_","a","n","a","l","y","s","i","s">>)
       THEN [raised |-> FALSE, error |-> <<>>,
             result |-> [status |-> "success", message |-> (<<"S","c","r","e","e","n"," ","A","n","a","l","y","s","i","s"," ","R","e","s","u","l","t","s">>),
                         payload |-> "tuple", type |-> "screen_analysis"]]
     ELSE IF action = (<<"r","u","n","_","c","o","m","m","a","n","d">>)
       THEN IF ~Truthy(target)
              THEN [raised |-> FALSE, error |-> <<>>,
                    result |-> [status |-> "error", message |-> (<<"N","o"," ","c","o","m","m","a","n","d"," ","s","p","e","c","i","f","i","e","d">>)]]
              ELSE [raised |-> FALSE, error |-> <<>>, result |-> run_command(target, outcome)]
     ELSE IF action = (<<"w","i","n","d","o","w","s","_","c","o","m","m","a","n","d">>)
       THEN [raised |-> FALSE, error |-> <<>>,
             result |-> execute_windows_command_action(action_item)]
     ELSE [raised |-> FALSE, error |-> <<>>, result |-> not_implemented(action)]

\* the cache entries after the handler's call: open_application records a
\* launch that worked
execute_action_entries(action_item, outcome, entries, now) ==
  LET target == Get(action_item, "target", None)
      looked == cache_get_entries(entries, (<<"a","p","p","_","l","a","u","n","c","h","e","s">>),
                                  lower(target), now)
  IN IF Get(action_item, "action", None) = (<<"o","p","e","n","_","a","p","p">>)
          /\ Truthy(target) /\ IsStr(target)
       THEN IF outcome = "ok" /\ ~LaunchCached(entries, target, now)
              THEN cache_set(looked, (<<"a","p","p","_","l","a","u","n","c","h","e","s">>),
                             lower(target),
                             [py |-> "obj", id |-> 0, payload |-> "none", size |-> 1],
                             RecentTasksTtl, now)
              ELSE looked
       ELSE entries

\* result['reason'] = reason
with_reason(result, reason) ==
  [k \in DOMAIN result \cup {"reason"} |-> IF k = "reason" THEN reason ELSE result[k]]

\* results.insert(0, result)
insert_first(results, result) == <<result>> \o results

\* results.append(result)
append(results, result) == Append(results, result)

\* the body of the dispatcher's loop for a dict action item, once its handler
\* has returned or raised: the result appended to results
dispatch_result(results, action_item, outcome, entries, now) ==
  LET call == execute_action(action_item, outcome, entries, now)
  IN IF call.raised
       THEN append(results,
                   [status |-> "error",
                    message |-> (<<"F","a","i","l","e","d"," ","t","o"," ","e","x","e","c","u","t","e"," ">>) \o
                                py_str(Get(action_item, "action", None)) \o (<<":"," ">>) \o call.error])
       ELSE append(results, with_reason(call.result, Get(action_item, "reason", <<>>)))

\* r.get('status') == 'success' or r.get('success') == True
is_success(r) == Get(r, "status", "") = "success" \/ Get(r, "success", FALSE) = TRUE

\* sum(1 for r in results if ...)
success_count(results) == Cardinality({k \in DOMAIN results : is_success(results[k])})

\* the overall status if it took every result to be a success
status_if_all_succeed(results) ==
  IF results # <<>> /\ \A k \in DOMAIN results : is_success(results[k])
    THEN "success" ELSE "error"

\* the overall status of a turn
overall_status(results) == IF success_count(results) > 0 THEN "success" ELSE "error"

\* the "\n\n<robot> Additional suggestions:" block of the composer
suggestions_block(suggestions) ==
  IF suggestions = <<>> THEN <<>>
  ELSE (<<"\n","\n","<robot>"," ","A","d","d","i","t","i","o","n","a","l"," ","s","u","g","g","e","s","t","i","o","n","s",":">>) \o
       Join(<<>>, [k \in DOMAIN suggestions |-> (<<"\n","<bullet>"," ">>) \o suggestions[k]])

\* TaskExecutor._combine_execution_results
combine_execution_results(results, plan) ==
  LET total_count == Len(results)
      line(i) ==
        (<<"\n">>) \o str_int(i) \o (<<"."," ">>) \o
        (IF is_success(results[i]) THEN (<<"<check>">>) ELSE (<<"<cross>">>)) \o (<<" ">>) \o
        Get(results[i], "message", (<<"A","c","t","i","o","n"," ","c","o","m","p","l","e","t","e","d">>)) \o
        (IF Get(results[i], "reason", <<>>) # <<>>
           THEN (<<" ","(">>) \o Get(results[i], "reason", <<>>) \o (<<")">>) ELSE <<>>)
      main_response ==
        IF total_count > 1
          THEN (<<"<check>"," ","C","o","m","p","l","e","t","e","d"," ">>) \o str_int(success_count(results)) \o (<<"/">>) \o
               str_int(total_count) \o (<<" ","a","c","t","i","o","n","s",":">>) \o
               Join(<<>>, [i \in DOMAIN results |-> line(i)])
        ELSE IF results # <<>>
          THEN Get(results[1], "message", (<<"A","c","t","i","o","n"," ","c","o","m","p","l","e","t","e","d">>))
          ELSE Get(plan, "response", (<<"N","o"," ","a","c","t","i","o","n","s"," ","e","x","e","c","u","t","e","d">>))
      suggestions == Get(plan, "proactive_suggestions", <<>>)
  IN [py |-> "response",
      status |-> overall_status(results),
      message |-> main_response \o suggestions_block(suggestions),
      execution_results |-> results,
      suggestions |-> suggestions,
      type |-> "multi_action_execution"]

\* TaskExecutor._handle_conversational_response
handle_conversational_response(plan) ==
  LET suggestions == Get(plan, "proactive_suggestions", <<>>)
  IN [py |-> "response",
      status |-> "success",
      message |->
        Get(plan, "response", (<<"H","o","w"," ","c","a","n"," ","I"," ","h","e","l","p"," ","y","o","u","?">>)) \o
        (IF suggestions = <<>> THEN <<>>
         ELSE (<<"\n","\n","<robot>"," ","S","m","a","r","t"," ","S","u","g","g","e","s","t","i","o","n","s",":">>) \o
              Join(<<>>, [i \in DOMAIN suggestions |->
                            (<<"\n">>) \o str_int(i) \o (<<"."," ">>) \o suggestions[i]]) \o
              (<<"\n","\n","W","o","u","l","d"," ","y","o","u"," ","l","i","k","e"," ","m","e"," ","t","o"," ","h","e","l","p"," ","w","i","t","h"," ","a","n","y"," ","o","f"," ","t","h","e","s","e","?">>)),
      understanding |-> Get(plan, "understanding", (<<"I"," ","u","n","d","e","r","s","t","a","n","d"," ","y","o","u","r"," ","r","e","q","u","e","s","t">>)),
      suggestions |-> suggestions,
      type |-> "conversational_with_suggestions"]

(***************************************************************************)
(* TaskExecutor: the last-resort handler of execute_task                   *)
(***************************************************************************)

\* ErrorRecoveryManager.handle_error with the registered strategies: only a
\* FileNotFoundError with a file_path in its context is recovered
handle_error(error, context) ==
  error.type = "FileNotFoundError" /\ "file_path" \in DOMAIN context

\* TaskExecutor._fallback_execution: IntentParser has no parse_basic_intent, the
\* AttributeError is caught
fallback_execution ==
  [py |-> "response", success |-> FALSE, message |-> (<<"F","a","l","l","b","a","c","k"," ","e","x","e","c","u","t","i","o","n"," ","f","a","i","l","e","d">>)]

\* a function without the except clause: the exception reaches the caller
no_except(error) ==
  [propagated |-> TRUE, errors |-> 0, response |-> NoValue]

\* the except clause of execute_task
execute_task_except(error) ==
  [propagated |-> FALSE,
   errors |-> 1,
   response |->
     IF handle_error(error, [user_input |-> <<>>])
       THEN fallback_execution
       ELSE [py |-> "response",
             success |-> FALSE,
             message |-> (<<"S","o","r","r","y",","," ","I"," ","e","n","c","o","u","n","t","e","r","e","d"," ","a","n"," ","e","r","r","o","r",":"," ">>) \o error.message,
             suggestions |-> << (<<"T","r","y"," ","r","e","p","h","r","a","s","i","n","g"," ","y","o","u","r"," ","r","e","q","u","e","s","t">>), (<<"C","h","e","c","k"," ","s","y","s","t","e","m"," ","s","t","a","t","u","s">>) >>]]

(***************************************************************************)
(* MemoryManager: the task tables                                          *)
(***************************************************************************)

\* datetime.now().strftime(...) with a format that ends at the seconds: the
\* clock read to the second, so two readings within one second give the same
\* text
strftime(t) == <<"Ymd_HMS", t>>

\* the record add_task builds; completed_at is the key complete_task adds, empty
\* while the record has no such key
new_task(task_description, priority, t) ==
  [id |-> strftime(t), description |-> task_description, priority |-> priority,
   status |-> (<<"p","e","n","d","i","n","g">>), created_at |-> t, updated_at |-> t, completed_at |-> <<>>]

\* Table.insert: the document is stored under a document id
insert(table, doc_id, document) == Append(table, [doc_id |-> doc_id, doc |-> document])

\* Table.search(Task.id == task_id): every document with that id, in table order
search(table, task_id) == SelectSeq(table, LAMBDA r : r.doc.id = task_id)

\* Table.remove(Task.id == task_id): every document with that id goes
remove(table, task_id) == SelectSeq(table, LAMBDA r : r.doc.id # task_id)

\* task[0] as complete_task marks it
task_data(task, t) ==
  [doc_id |-> task[1].doc_id,
   doc |-> [task[1].doc EXCEPT !.status = (<<"c","o","m","p","l","e","t","e","d">>), !.completed_at = <<t>>]]

(***************************************************************************)
(* GemmaMainWindow: one turn at a time                                     *)
(***************************************************************************)

\* send_message without its first test
send_message_while_processing(window) ==
  IF strip(window.input_field) = <<>>
    THEN [window |-> window, start |-> FALSE, user_input |-> <<>>]
    ELSE [window |-> [window EXCEPT !.input_field = <<>>, !.is_processing = TRUE],
          start |-> TRUE, user_input |-> strip(window.input_field)]

\* GemmaMainWindow.send_message: the window as it leaves it, whether a
\* WorkerThread is started, and the text the worker gets
send_message(window) ==
  IF window.is_processing
    THEN [window |-> window, start |-> FALSE, user_input |-> <<>>]
  ELSE IF strip(window.input_field) = <<>>
    THEN [window |-> window, start |-> FALSE, user_input |-> <<>>]
    ELSE [window |-> [window EXCEPT !.input_field = <<>>, !.is_processing = TRUE],
          start |-> TRUE, user_input |-> strip(window.input_field)]

(***************************************************************************)
(* WindowsCommandExpert.execute_dynamic_command                            *)
(***************************************************************************)

\* f'{timeout}' of the timeouts _calculate_intelligent_timeout returns
str_seconds(n) ==
  IF n < 100 THEN str_int(n) ELSE <<DigitSeq[(n \div 100) + 1]>> \o str_int(n % 100)

\* _calculate_intelligent_timeout
calculate_intelligent_timeout(command) ==
  IF AnyIn(<<(<<"s","f","c"," ","/","s","c","a","n","n","o","w">>), (<<"c","h","k","d","s","k">>), (<<"c","l","e","a","n","m","g","r">>), (<<"d","i","s","m">>)>>, lower(command)) THEN 300
  ELSE IF AnyIn(<<(<<"s","y","s","t","e","m","i","n","f","o">>), (<<"w","m","i","c">>), (<<"n","e","t","s","t","a","t">>)>>, lower(command)) THEN 60
  ELSE IF AnyIn(<<(<<"t","a","s","k","l","i","s","t">>), (<<"i","p","c","o","n","f","i","g">>), (<<"p","i","n","g">>)>>, lower(command)) THEN 30
  ELSE 45

\* the branch of _execute_single_command_with_ai_correction a command takes
CommandKind(command) ==
  IF Len(command) >= 5 /\ SubSeq(command, 1, 5) = (<<"e","c","h","o"," ">>) THEN "echo"
  ELSE IF AnyIn(<<(<<"m","s","c","o","n","f","i","g">>), (<<"r","e","g","e","d","i","t">>), (<<"g","p","e","d","i","t">>), (<<"s","e","r","v","i","c","e","s",".","m","s","c">>)>>, lower(command))
    THEN "gui"
  ELSE "cli"

\* what subprocess.run can do with a command: return with exit code 0 or
\* another, raise TimeoutExpired, or raise another exception
SubprocessOutcomes == {"exit0", "exit1", "timeout", "oserror"}

\* _execute_single_command_with_ai_correction: the result returned, or the
\* exception that leaves it.  In the except clauses the GUI branch has no
\* local named timeout, and the class has no method _get_recovery_options.
execute_single_command_with_ai_correction(command, explanation, outcome) ==
  IF CommandKind(command) = "echo"
    THEN [raised |-> FALSE, error |-> "", ran |-> FALSE,
          result |-> [command |-> command, status |-> "success",
                      message |-> SubSeq(command, 6, Len(command)),
                      output |-> SubSeq(command, 6, Len(command)),
                      explanation |-> explanation, type |-> "guidance"]]
  ELSE IF outcome = "oserror"
    THEN [raised |-> TRUE, error |-> "AttributeError", ran |-> TRUE, result |-> NoValue]
  ELSE IF CommandKind(command) = "gui"
    THEN IF outcome = "timeout"
           THEN [raised |-> TRUE, error |-> "UnboundLocalError", ran |-> TRUE,
                 result |-> NoValue]
           ELSE [raised |-> FALSE, error |-> "", ran |-> TRUE,
                 result |-> [command |-> command, status |-> "success",
                             message |-> (<<"L","a","u","n","c","h","e","d",":"," ">>) \o command,
                             output |-> (<<"G","U","I"," ","a","p","p","l","i","c","a","t","i","o","n"," ">>) \o command \o (<<" ","s","t","a","r","t","e","d">>),
                             explanation |-> explanation, type |-> "gui_launch"]]
  ELSE IF outcome = "exit0"
    THEN [raised |-> FALSE, error |-> "", ran |-> TRUE,
          result |-> [command |-> command, status |-> "success",
                      message |-> (<<"C","o","m","m","a","n","d"," ","e","x","e","c","u","t","e","d"," ","s","u","c","c","e","s","s","f","u","l","l","y">>), output |-> <<>>,
                      explanation |-> explanation,
                      execution_time |-> calculate_intelligent_timeout(command)]]
  ELSE IF outcome = "exit1"
    THEN [raised |-> FALSE, error |-> "", ran |-> TRUE,
          result |-> [command |-> command, status |-> "error",
                      message |-> (<<"C","o","m","m","a","n","d"," ","f","a","i","l","e","d"," ","(","e","x","i","t"," ","c","o","d","e"," ","1",")">>), output |-> <<>>,
                      explanation |-> explanation]]
  ELSE [raised |-> FALSE, error |-> "", ran |-> TRUE,
        result |-> [command |-> command, status |-> "timeout",
                    message |-> (<<"C","o","m","m","a","n","d"," ","t","o","o","k"," ","l","o","n","g","e","r"," ","t","h","a","n"," ","e","x","p","e","c","t","e","d"," ","(">>)
                                \o str_seconds(calculate_intelligent_timeout(command))
                                \o (<<"s",")">>),
                    output |-> <<>>, explanation |-> explanation,
                    next_approach |-> (<<"t","r","y","_","s","i","m","p","l","e","r","_","v","e","r","s","i","o","n">>)]]

\* _generate_intelligent_alternatives: the commands of the alternatives
generate_intelligent_alternatives(failed_command, purpose) ==
  LET alternatives ==
    (IF Contains(lower(failed_command), (<<"t","a","s","k","l","i","s","t">>))
       THEN <<(<<"w","m","i","c"," ","p","r","o","c","e","s","s"," ","g","e","t"," ","n","a","m","e",",","p","r","o","c","e","s","s","i","d",",","w","o","r","k","i","n","g","s","e","t","s","i","z","e">>),
              (<<"p","o","w","e","r","s","h","e","l","l"," ","\"","G","e","t","-","P","r","o","c","e","s","s"," ","|"," ","S","o","r","t","-","O","b","j","e","c","t"," ","W","o","r","k","i","n","g","S","e","t"," ","-","D","e","s","c","e","n","d","i","n","g"," ","|"," ","S","e","l","e","c","t","-","O","b","j","e","c","t"," ","-","F","i","r","s","t"," ","1","0","\"">>)>>
     ELSE IF Contains(lower(failed_command), (<<"s","y","s","t","e","m","i","n","f","o">>))
       THEN <<(<<"w","m","i","c"," ","c","o","m","p","u","t","e","r","s","y","s","t","e","m"," ","g","e","t"," ","m","o","d","e","l",",","t","o","t","a","l","p","h","y","s","i","c","a","l","m","e","m","o","r","y">>), (<<"m","s","i","n","f","o","3","2">>)>>
     ELSE IF Contains(lower(failed_command), (<<"n","e","t","s","h">>)) \/ Contains(lower(purpose), (<<"w","i","f","i">>))
       THEN <<(<<"i","p","c","o","n","f","i","g"," ","/","a","l","l">>),
              (<<"p","o","w","e","r","s","h","e","l","l"," ","\"","G","e","t","-","N","e","t","A","d","a","p","t","e","r"," ","|"," ","W","h","e","r","e","-","O","b","j","e","c","t"," ","S","t","a","t","u","s"," ","-","e","q"," ","'","U","p","'","\"">>)>>
     ELSE IF Contains(lower(failed_command), (<<"p","i","n","g">>))
       THEN <<(<<"n","s","l","o","o","k","u","p"," ","g","o","o","g","l","e",".","c","o","m">>), (<<"t","e","l","n","e","t"," ","g","o","o","g","l","e",".","c","o","m"," ","8","0">>)>>
     ELSE <<>>)
    \o (IF Contains(lower(purpose), (<<"i","n","f","o","r","m","a","t","i","o","n">>)) \/ Contains(lower(purpose), (<<"c","h","e","c","k">>))
          THEN <<(<<"e","c","h","o"," ","L","e","t"," ","m","e"," ","t","r","y"," ","a"," ","d","i","f","f","e","r","e","n","t"," ","a","p","p","r","o","a","c","h"," ","t","o"," ","g","e","t"," ","t","h","i","s"," ","i","n","f","o","r","m","a","t","i","o","n">>)>>
          ELSE <<>>)
  IN SubSeq(alternatives, 1, IF Len(alternatives) < 3 THEN Len(alternatives) ELSE 3)

\* the fallback loop without its break
keep_trying(fallback_result) == TRUE

\* the fallback loop goes on to the next fallback unless this one succeeded
try_next_fallback(fallback_result) == fallback_result.status # "success"

\* result = fallback_result with the three keys execute_dynamic_command sets
used_fallback(fallback_result, fallback_cmd) ==
  [k \in DOMAIN fallback_result \cup {"used_fallback", "fallback_command", "adaptation_success"} |->
     IF k = "used_fallback" THEN TRUE
     ELSE IF k = "fallback_command" THEN fallback_cmd
     ELSE IF k = "adaptation_success" THEN TRUE
     ELSE fallback_result[k]]

\* an alternative's result with the keys _try_ai_guided_alternative sets
ai_alternative_used(result, original_command, explanation) ==
  [k \in DOMAIN result \cup {"ai_alternative_used", "original_command", "alternative_explanation"} |->
     IF k = "ai_alternative_used" THEN TRUE
     ELSE IF k = "original_command" THEN original_command
     ELSE IF k = "alternative_explanation" THEN explanation
     ELSE result[k]]

\* the end of execute_dynamic_command for a result with status 'success', when
\* the goal of the execution context is empty: next_suggestions (then only the
\* progress check), and the keys of execution_guidance and progress_update the
\* callers read.  successful is len(successful_commands), step is current_step.
with_guidance(result, purpose, successful, step) ==
  [k \in DOMAIN result \cup {"next_suggestions", "execution_guidance", "progress_update"} |->
     IF k = "next_suggestions"
       THEN <<[command |-> (<<"e","c","h","o"," ","P","r","o","g","r","e","s","s",":"," ">>) \o str_seconds(IF successful * 20 < 100 THEN successful * 20 ELSE 100)
                                        \o (<<"%"," ","-"," ","C","o","n","t","i","n","u","e"," ","w","i","t","h"," ","n","e","x","t"," ","s","t","e","p","?">>),
               purpose |-> (<<"P","r","o","g","r","e","s","s"," ","u","p","d","a","t","e">>), is_guidance |-> TRUE]>>
     ELSE IF k = "execution_guidance"
       THEN [status_summary |-> (<<"<check>"," ","C","o","m","m","a","n","d"," ","c","o","m","p","l","e","t","e","d"," ","s","u","c","c","e","s","s","f","u","l","l","y">>),
             what_happened |-> (<<"S","u","c","c","e","s","s","f","u","l","l","y"," ","e","x","e","c","u","t","e","d",":"," ">>) \o purpose,
             next_steps |-> (<<"R","e","a","d","y"," ","f","o","r"," ","t","h","e"," ","n","e","x","t"," ","s","t","e","p"," ","i","n"," ","y","o","u","r"," ","t","a","s","k">>),
             user_action_needed |-> FALSE]
     ELSE IF k = "progress_update"
       THEN [current_step |-> step, successful_commands |-> successful, failed_commands |-> 0]
     ELSE result[k]]

(***************************************************************************)
(* CircuitBreaker (the second definition of the class in error_handling,   *)
(* which is the one the module name is bound to)                           *)
(***************************************************************************)

\* CircuitBreaker.__init__
new_breaker(failure_threshold, recovery_timeout) ==
  [py |-> "CircuitBreaker",
   failure_threshold |-> failure_threshold, recovery_timeout |-> recovery_timeout,
   failure_count |-> 0, last_failure_time |-> None, state |-> "CLOSED"]

\* the test at the head of call() at time t: "raise" when the breaker is OPEN
\* and the recovery timeout has not passed, else the breaker as it goes on to
\* call the function
breaker_admit(b, t) ==
  IF b.state = "OPEN"
    THEN IF t - b.last_failure_time > b.recovery_timeout
           THEN [raise |-> FALSE, breaker |-> [b EXCEPT !.state = "HALF_OPEN"]]
           ELSE [raise |-> TRUE, breaker |-> b]
    ELSE [raise |-> FALSE, breaker |-> b]

\* _on_success that leaves failure_count as it is
on_success_keeps_count(b) == [b EXCEPT !.state = "CLOSED"]

\* CircuitBreaker._on_success
on_success(b) == [b EXCEPT !.failure_count = 0, !.state = "CLOSED"]

\* CircuitBreaker._on_failure at time t
on_failure(b, t) ==
  [b EXCEPT !.failure_count = @ + 1,
            !.last_failure_time = t,
            !.state = IF b.failure_count + 1 >= b.failure_threshold THEN "OPEN" ELSE @]

(***************************************************************************)
(* retry_with_backoff                                                      *)
(***************************************************************************)

\* the classes an exception of each type is an instance of
ExceptionBases ==
  [ValueError |-> {"ValueError", "Exception", "BaseException"},
   KeyError |-> {"KeyError", "LookupError", "Exception", "BaseException"},
   KeyboardInterrupt |-> {"KeyboardInterrupt", "BaseException"}]

\* except exceptions as e: whether the clause catches e
catches(exceptions, e) == exceptions \cap ExceptionBases[e.type] # {}

\* the wrapper gives up one attempt early
is_last_attempt_early(attempt, max_retries) == attempt + 1 >= max_retries

\* if attempt == max_retries
is_last_attempt(attempt, max_retries) == attempt = max_retries

\* the wrapper of retry_with_backoff when it is called: the loop is at attempt
\* 0 and about to call func
wrapper_called(max_retries, exceptions) ==
  [py |-> "wrapper", max_retries |-> max_retries, exceptions |-> exceptions,
   backoff_factor |-> 2, attempt |-> 0, last_exception |-> None, at |-> "func",
   invocations |-> <<>>, returned |-> NoValue, raised |-> NoValue, wait_time |-> 0]

\* the body of the loop once func has ended with outcome: a value is returned,
\* an exception the clause does not catch propagates, one it catches is raised
\* again on the last attempt and slept on before
func_ended(r, outcome) ==
  IF outcome.kind = "return"
    THEN [r EXCEPT !.invocations = Append(@, outcome), !.at = "done",
                   !.returned = outcome.value]
  ELSE IF ~catches(r.exceptions, outcome)
    THEN [r EXCEPT !.invocations = Append(@, outcome), !.at = "done", !.raised = outcome]
  ELSE IF is_last_attempt(r.attempt, r.max_retries)
    THEN [r EXCEPT !.invocations = Append(@, outcome), !.at = "done",
                   !.last_exception = outcome, !.raised = outcome]
  ELSE [r EXCEPT !.invocations = Append(@, outcome), !.at = "sleep",
                 !.last_exception = outcome,
                 !.wait_time = r.backoff_factor ^ r.attempt]

\* time.sleep(wait_time) is over: the loop goes to the next attempt, and past
\* the last one to raise last_exception
slept(r) ==
  IF r.attempt + 1 < r.max_retries + 1
    THEN [r EXCEPT !.attempt = @ + 1, !.at = "func"]
    ELSE [r EXCEPT !.at = "done", !.raised = r.last_exception]

(***************************************************************************)
(* State                                                                   *)
(***************************************************************************)

VARIABLES
  entries,          \* local_cache.metadata["entries"] with the cache files' content
  now,              \* the wall clock (datetime.now()), in seconds
  api,              \* the last call of the LocalCache API and the one before it
  ops,              \* number of LocalCache API calls made
  context_history,  \* TaskExecutor.context_history
  execution_stats,  \* TaskExecutor.execution_stats
  pc,               \* where the turn in progress is: "idle", "dispatch", "handler"
  turn,             \* the locals of the turn in progress, or of the last one
  turns,            \* number of execute_task calls made
  log,              \* the finished turns: input, time, path taken, response
  tasks,            \* MemoryManager.tasks, the pending table
  completed_tasks,  \* MemoryManager.completed_tasks
  conversations,    \* MemoryManager.conversations
  next_id,          \* the document id the pending table gives out next
  lock,             \* who holds MemoryManager._lock, or "free"
  threads,          \* per thread: the MemoryManager call it is in and its locals
  added,            \* every record add_task has inserted, in order
  window,           \* GemmaMainWindow: is_processing, is_listening, input_field
  running,          \* the WorkerThreads that are inside execute_task
  voice,            \* where the VoiceThread is: "none", "started", "listening"
  signals,          \* the signals queued for the GUI thread, oldest first
  gui_log,          \* WorkerThreads started so far, and the last send_message
  expert,           \* WindowsCommandExpert: its execution context and the call of
                    \* execute_dynamic_command in progress, or the last one
  recent,           \* the recent_tasks table and the inputs cached so far
  breaker,          \* a CircuitBreaker and the record of its last call()
  retry,            \* a call of a function wrapped by retry_with_backoff
  probe             \* the arguments and the result of a function applied on its own

memoryVars == <<tasks, completed_tasks, conversations, next_id, lock, threads, added>>

\* the state of the components around the executor and the cache
guiVars == <<window, running, voice, signals, gui_log>>

\* the state of the utilities
utilVars == <<recent, breaker, retry, probe>>

componentVars == <<memoryVars, guiVars, expert, utilVars>>

vars == <<entries, now, api, ops, context_history, execution_stats, pc, turn, turns, log,
          componentVars>>

cacheVars == <<entries, now, api, ops>>

execVars == <<context_history, execution_stats, pc, turn, turns, log>>

\* the thread that serves requests and the backup worker __init__ starts
MemoryThreads == {"request", "backup"}

\* a thread that is in no MemoryManager call
NoMemoryCall ==
  [pc |-> "idle", op |-> "none", task_id |-> <<>>, task |-> <<>>,
   before |-> [tasks |-> <<>>, completed_tasks |-> <<>>], result |-> <<>>]

\* MemoryManager.__init__: empty tables, a lock nobody holds
MemoryInit ==
  /\ tasks = <<>>
  /\ completed_tasks = <<>>
  /\ conversations = <<>>
  /\ next_id = 1
  /\ lock = "free"
  /\ threads = [th \in MemoryThreads |-> NoMemoryCall]
  /\ added = <<>>

\* no send_message yet
NoSubmit == [by |-> "none", busy |-> FALSE, start |-> FALSE]

\* GemmaMainWindow.__init__
WindowInit ==
  /\ window = [is_processing |-> FALSE, is_listening |-> FALSE, input_field |-> <<>>]
  /\ running = 0
  /\ voice = "none"
  /\ signals = <<>>
  /\ gui_log = [starts |-> 0, last |-> NoSubmit]

\* WindowsCommandExpert.__init__, and no call of execute_dynamic_command yet
ExpertInit ==
  expert = [pc |-> "idle", command_info |-> NoValue, i |-> 0, result |-> NoValue,
            attempts |-> <<>>, raised |-> "", returned |-> FALSE,
            current_step |-> 0, successful_commands |-> 0, calls |-> 0]

\* the components as their constructors leave them
\* no utility has been called
UtilInit ==
  /\ recent = [items |-> <<>>, submitted |-> <<>>]
  /\ breaker = NoValue
  /\ retry = NoValue
  /\ probe = NoValue

ComponentsIdle == MemoryInit /\ WindowInit /\ ExpertInit /\ UtilInit

\* the clock advances in steps just longer than the shortest TTL, at most
\* MaxTicks times
TickStep == TaskResponseTtl + 1

\* the number of times the clock moves in a run
MaxTicks == 1

\* time passes
Tick ==
  /\ pc = "idle"
  /\ now < MaxTicks * TickStep
  /\ now' = now + TickStep
  /\ UNCHANGED componentVars
  /\ UNCHANGED <<entries, api, ops, context_history, execution_stats, pc, turn, turns, log>>

(***************************************************************************)
(* The LocalCache API on its own                                           *)
(***************************************************************************)

\* the number of API calls in a run
MaxOps == 2

\* (namespace, key) pairs; the last two have the same combined text "a:b:k"
CachePairs ==
  { <<(<<"a">>), (<<"k">>)>>,
    <<(<<"a">>), (<<"b",":","k">>)>>,
    <<(<<"a",":","b">>), (<<"k">>)>> }

\* values handed to set(): dicts with and without a tuple inside (two of the
\* first exceed the budget, one stays under 80% of it), a dict json cannot
\* serialise, a dict larger than 80% of the budget, and a str (pickled)
CacheValues ==
  { [py |-> "obj", id |-> 1, payload |-> "none", size |-> 6],
    [py |-> "obj", id |-> 2, payload |-> "tuple", size |-> 4],
    [py |-> "obj", id |-> 3, payload |-> "opaque", size |-> 1],
    [py |-> "obj", id |-> 4, payload |-> "none", size |-> MaxSizeBytes - 1],
    [py |-> "str", id |-> 5, payload |-> "none", size |-> 4] }

CacheTtls == {TaskResponseTtl, PlanTtlHours * 3600}

NoCall ==
  [op |-> "none", namespace |-> <<>>, key |-> <<>>, value |-> NoValue, ttl |-> 0,
   at |-> 0, result |-> NoValue, put |-> <<>>]

\* a call of local_cache.set(namespace, key, value, ttl_seconds)
CacheSet(namespace, key, value, ttl_seconds) ==
  /\ ops < MaxOps
  /\ entries' = cache_set(entries, namespace, key, value, ttl_seconds, now)
  /\ api' = [last |-> [op |-> "set", namespace |-> namespace, key |-> key,
                       value |-> value, ttl |-> ttl_seconds, at |-> now,
                       result |-> NoValue,
                       \* the entries as set() leaves them before _enforce_size_limit
                       put |-> IF IsDictOrList(value) /\ ~JsonSerialisable(value)
                                 THEN entries
                                 ELSE PutEntry(entries,
                                        [cache_key |-> generate_key(namespace, key),
                                         namespace |-> namespace, key |-> key,
                                         created |-> now, expires |-> now + ttl_seconds,
                                         serialization |->
                                           IF IsDictOrList(value) THEN "json" ELSE "pickle",
                                         size |-> SizeOf(value),
                                         data |-> IF IsDictOrList(value)
                                                    THEN JsonRoundTrip(value) ELSE value])],
            prev |-> api.last]
  /\ ops' = ops + 1
  /\ UNCHANGED componentVars
  /\ UNCHANGED <<now, context_history, execution_stats, pc, turn, turns, log>>

\* a call of local_cache.get(namespace, key)
CacheGet(namespace, key) ==
  /\ ops < MaxOps
  /\ entries' = cache_get_entries(entries, namespace, key, now)
  /\ api' = [last |-> [op |-> "get", namespace |-> namespace, key |-> key,
                       value |-> NoValue, ttl |-> 0, at |-> now,
                       result |-> cache_get(entries, namespace, key, now),
                       put |-> entries],
            prev |-> api.last]
  /\ ops' = ops + 1
  /\ UNCHANGED componentVars
  /\ UNCHANGED <<now, context_history, execution_stats, pc, turn, turns, log>>

\* a call of local_cache.clear_namespace(namespace)
ClearNamespace(namespace) ==
  /\ ops < MaxOps
  /\ entries' = clear_namespace(entries, namespace)
  /\ api' = [last |-> [op |-> "clear", namespace |-> namespace, key |-> <<>>,
                       value |-> NoValue, ttl |-> 0, at |-> now, result |-> NoValue,
                       put |-> entries],
            prev |-> api.last]
  /\ ops' = ops + 1
  /\ UNCHANGED componentVars
  /\ UNCHANGED <<now, context_history, execution_stats, pc, turn, turns, log>>

NoStats == [total_executions |-> 0, cache_hits |-> 0, ai_calls |-> 0, errors |-> 0]

\* no turn made yet
NoTurn ==
  [input |-> <<>>, at |-> 0, path |-> "none", before |-> NoStats,
   planned |-> FALSE, reply |-> <<>>, intent_reply |-> <<>>, source |-> "none",
   plan |-> NoValue, results |-> <<>>, trace |-> <<>>, llm_calls |-> 0,
   ai_calls |-> 0, raised |-> FALSE, escaped |-> FALSE, propagated |-> FALSE,
   response |-> NoValue, done |-> FALSE, context |-> <<>>]

InitCache ==
  /\ entries = <<>>
  /\ now = 0
  /\ api = [last |-> NoCall, prev |-> NoCall]
  /\ ops = 0
  /\ context_history = <<>>
  /\ execution_stats = NoStats
  /\ pc = "idle"
  /\ turn = NoTurn
  /\ turns = 0
  /\ log = <<>>
  /\ ComponentsIdle

NextCache ==
  \/ \E p \in CachePairs, v \in CacheValues, t \in CacheTtls : CacheSet(p[1], p[2], v, t)
  \/ \E p \in CachePairs : CacheGet(p[1], p[2])
  \/ \E p \in CachePairs : ClearNamespace(p[1])
  \/ Tick

SpecCache == InitCache /\ [][NextCache]_vars

(***************************************************************************)
(* Claims about LocalCache (under SpecCache)                               *)
(***************************************************************************)

\* the last API call is a get made directly after a set of the same namespace
\* and key, with no time passing in between
GetRightAfterSet ==
  /\ api.last.op = "get"
  /\ api.prev.op = "set"
  /\ api.last.namespace = api.prev.namespace
  /\ api.last.key = api.prev.key
  /\ api.last.at = api.prev.at

\* the last API call is a get of an entry that was recorded and whose TTL has elapsed
GetAfterTtl ==
  /\ api.last.op = "get"
  /\ LET k == EntryIndex(api.last.put, generate_key(api.last.namespace, api.last.key))
     IN k # 0 /\ api.last.at > api.last.put[k].expires

\* C6: set(ns, k, v, ttl) followed immediately by get(ns, k) returns a value
\* equal to v; and once the TTL has elapsed get(ns, k) returns None and the
\* entry is removed.
C6_RoundTrip ==
  /\ GetRightAfterSet => api.last.result = api.prev.value
  /\ GetAfterTtl =>
       /\ api.last.result = NoValue
       /\ EntryIndex(entries, generate_key(api.last.namespace, api.last.key)) = 0

\* the entries the last set() recorded or kept and _enforce_size_limit removed
Evicted ==
  {api.last.put[k] : k \in {j \in DOMAIN api.last.put :
                              EntryIndex(entries, api.last.put[j].cache_key) = 0}}

\* the last API call is a set() that made the recorded total exceed the budget
SetOverBudget ==
  /\ api.last.op = "set"
  /\ TotalSize(api.last.put) > MaxSizeBytes

\* C7: whenever a set() makes the total recorded size exceed the budget, then
\* when set() returns the total is at most 80% of the budget and every
\* surviving entry was created no earlier than every evicted entry.
C7_EvictOldestToEightyPercent ==
  SetOverBudget =>
    /\ 10 * TotalSize(entries) <= 8 * MaxSizeBytes
    /\ \A k \in DOMAIN entries : \A e \in Evicted : entries[k].created >= e.created

\* C7's case: a set() went over budget, an older entry was evicted and a
\* newer one survived
C7_Witness ==
  /\ SetOverBudget
  /\ \E k \in DOMAIN entries : \E e \in Evicted : entries[k].created > e.created

(***************************************************************************)
(* TaskExecutor.execute_task, one turn at a time                           *)
(***************************************************************************)

\* the number of execute_task calls in a run
MaxTurns == 2

\* what the user types: a request a pattern matches, the same in another
\* spelling, one no pattern matches, an agreement, an agreement that carries its
\* own cue, and a refusal
UserInputs ==
  { (<<"o","p","e","n"," ","n","o","t","e","p","a","d">>), (<<"O","p","e","n"," ","N","o","t","e","p","a","d"," ">>), (<<"w","r","i","t","e"," ","h","e","l","l","o">>), (<<"y","e","s">>), (<<"o","k"," ","w","r","i","t","e">>), (<<"o","k"," ","c","a","n","c","e","l">>) }

ActionOpen ==
  [py |-> "dict", action |-> (<<"o","p","e","n","_","a","p","p">>), target |-> (<<"n","o","t","e","p","a","d">>), reason |-> (<<"a","s","k","e","d">>)]

\* an action whose target is a number: the handler raises on target.lower()
ActionList == [py |-> "dict", action |-> (<<"l","i","s","t","_","d","i","r","e","c","t","o","r","y">>), target |-> Number]

\* an action whose result holds a tuple
ActionScreen == [py |-> "dict", action |-> (<<"s","c","r","e","e","n","_","a","n","a","l","y","s","i","s">>), reason |-> (<<"l","o","o","k">>)]

\* an action the dispatcher has no handler for
ActionDance == [py |-> "dict", action |-> (<<"d","a","n","c","e">>), target |-> None, reason |-> <<>>]

\* a JSON string where an action object is expected
NotADict == [py |-> "str", text |-> (<<"o","p","e","n","_","a","p","p">>)]

\* the plans the LLM may answer with
Plans ==
  { [py |-> "dict", requires_execution |-> TRUE,
     suggested_actions |-> <<ActionOpen, ActionList, ActionScreen>>,
     proactive_suggestions |-> << (<<"C","r","e","a","t","e"," ","a"," ","t","e","s","t"," ","f","i","l","e">>) >>,
     response |-> (<<"O","n"," ","i","t",".">>)],
    [py |-> "dict", requires_execution |-> TRUE,
     suggested_actions |-> <<ActionDance, NotADict>>,
     response |-> (<<"O","n"," ","i","t",".">>)] }

\* what ollama_client.generate returns for the planning prompt: "" (also on a
\* failed call), text without JSON, malformed JSON, or a plan
PlannerReplies ==
  { <<>>, <<Ch("o"), Ch("k")>>, <<Ch("{"), Ch("x"), Ch("}")>> }
  \cup {<<Json(p)>> : p \in Plans}

\* what the user types in reply to a turn: a refusal, and clarifications that
\* start like one
ReplyInputs ==
  { (<<"n","o">>), (<<"n","o"," ","b","u","t"," ","o","p","e","n"," ","n","o","t","e","p","a","d">>), (<<"n","o"," ","p","l","e","a","s","e">>), (<<"N","o"," ","w","a","i","t"," ">>) }

\* every input of a turn
TurnInputs == UserInputs \cup ReplyInputs

\* what it returns for the intent prompt
IntentReplies ==
  { <<>>, <<Json([py |-> "dict", intent |-> (<<"o","p","e","n","_","a","p","p">>), entity |-> (<<"n","o","t","e","p","a","d">>)])>> }

\* the inputs _is_agreement_response accepts
Agreeing == {u \in TurnInputs : is_agreement_response(u)}

\* the inputs _is_negative_response accepts
Declining == {u \in TurnInputs : is_negative_response(u)}

\* the inputs no pattern of the table matches: parse_intent asks the LLM
Unmatched == {u \in TurnInputs : parse_intent_calls_llm(u)}

\* parse_intent(u) when the LLM answers r to the intent prompt, and whether it
\* is asked
ParsedIntent ==
  [u \in TurnInputs |-> [r \in IntentReplies |->
     [data |-> parse_intent(u, r), asked |-> parse_intent_calls_llm(u)]]]

\* self.context_history.append(f"User: {user_input}") and the trimming after it
WithUser(user_input) == PushContext(context_history, (<<"U","s","e","r",":"," ">>) \o user_input)

\* the turn record at the start of execute_task(user_input)
Begin(user_input) ==
  [NoTurn EXCEPT !.input = user_input, !.at = now, !.before = execution_stats,
                 !.context = WithUser(user_input)]

\* the entry of log for a finished turn
Logged(t) ==
  Append(log, [input |-> t.input, at |-> t.at, path |-> t.path,
               response |-> t.response, llm_calls |-> t.llm_calls])

\* execute_task finds the response in the cache
TurnCacheHit(user_input) ==
  /\ pc = "idle"
  /\ turns < MaxTurns
  /\ LET cached == check_cache(entries, user_input, now)
     IN /\ cached.response # NoValue
        /\ entries' = cached.entries
        /\ context_history' = store_assistant_context(WithUser(user_input), cached.response)
        /\ turn' = [Begin(user_input) EXCEPT
                      !.path = "cache", !.response = cached.response, !.done = TRUE]
  /\ execution_stats' = [execution_stats EXCEPT !.total_executions = @ + 1,
                                                !.cache_hits = @ + 1]
  /\ log' = Logged(turn')
  /\ turns' = turns + 1
  /\ UNCHANGED componentVars
  /\ UNCHANGED <<now, api, ops, pc>>

\* execute_task takes the agreement bypass and the handler finds its cue;
\* written is whether the file could be written
TurnAgreement(user_input, written) ==
  /\ pc = "idle"
  /\ turns < MaxTurns
  /\ check_cache(entries, user_input, now).response = NoValue
  /\ user_input \in Agreeing
  /\ AgreementCue(WithUser(user_input))
  /\ LET response == handle_agreement_response(WithUser(user_input), written)
     IN /\ context_history' = store_assistant_context(WithUser(user_input), response)
        /\ turn' = [Begin(user_input) EXCEPT
                      !.path = "agreement", !.response = response, !.done = TRUE]
  /\ entries' = check_cache(entries, user_input, now).entries
  /\ execution_stats' = [execution_stats EXCEPT !.total_executions = @ + 1]
  /\ log' = Logged(turn')
  /\ turns' = turns + 1
  /\ UNCHANGED componentVars
  /\ UNCHANGED <<now, api, ops, pc>>

\* execute_task takes the negative bypass
TurnNegative(user_input) ==
  /\ pc = "idle"
  /\ turns < MaxTurns
  /\ check_cache(entries, user_input, now).response = NoValue
  /\ user_input \notin Agreeing
  /\ user_input \in Declining
  /\ context_history' = store_assistant_context(WithUser(user_input), negative_response)
  /\ turn' = [Begin(user_input) EXCEPT
                !.path = "negative", !.response = negative_response, !.done = TRUE]
  /\ entries' = check_cache(entries, user_input, now).entries
  /\ execution_stats' = [execution_stats EXCEPT !.total_executions = @ + 1]
  /\ log' = Logged(turn')
  /\ turns' = turns + 1
  /\ UNCHANGED componentVars
  /\ UNCHANGED <<now, api, ops, pc>>

\* the end of execute_task's try block for a planned turn t with result:
\* _store_assistant_context, then _cache_response if result.get('success', True)
FinishPlanned(t, result) ==
  /\ context_history' = store_assistant_context(context_history, result)
  /\ entries' = IF Get(result, "success", TRUE)
                  THEN cache_response(entries, t.input, result, now)
                  ELSE entries
  /\ turn' = [t EXCEPT !.response = result, !.done = TRUE]
  /\ log' = Logged(turn')
  /\ pc' = "idle"

\* an exception reaches the except clause of execute_task in turn t
LastResort(t, error) ==
  LET caught == execute_task_except(error)
  IN /\ execution_stats' = [execution_stats EXCEPT
                              !.total_executions = t.before.total_executions + 1,
                              !.ai_calls = t.before.ai_calls + t.ai_calls,
                              !.errors = @ + caught.errors]
     /\ turn' = [t EXCEPT !.raised = TRUE, !.propagated = caught.propagated,
                          !.response = caught.response, !.done = TRUE]
     /\ log' = Logged(turn')
     /\ pc' = "idle"

\* whether the planner asks the LLM for the intent as well
AsksIntent(user_input, reply) ==
  /\ get_cached_response(entries, user_input, (<<"p","l","a","n","n","i","n","g","_","s","y","s","t","e","m">>), now) = <<>>
  /\ planning_except(plan_attempt(reply)).outcome \in {"no_json", "logged"}
  /\ user_input \in Unmatched

\* the rest of execute_task once _analyze_and_plan has returned planning (or
\* raised): a plan that requires execution goes to _execute_plan, a
\* conversational one is answered, stored and cached at once.  t is the turn so
\* far and stats the counters after it.
AfterPlanning(user_input, planning, t, stats) ==
  IF planning.raised
    THEN /\ LastResort(t, [type |-> "JSONDecodeError", message |-> (<<"E","x","p","e","c","t","i","n","g"," ","v","a","l","u","e">>)])
         /\ entries' = planning.entries
         /\ context_history' = WithUser(user_input)
  ELSE IF Get(planning.plan, "requires_execution", FALSE)
    THEN /\ execution_stats' = stats
         /\ turn' = t
         /\ entries' = planning.entries
         /\ context_history' = WithUser(user_input)
         /\ pc' = "dispatch"
         /\ log' = log
  ELSE LET result == handle_conversational_response(planning.plan)
       IN /\ execution_stats' = stats
          /\ context_history' = store_assistant_context(WithUser(user_input), result)
          /\ entries' = IF Get(result, "success", TRUE)
                          THEN cache_response(planning.entries, user_input, result, now)
                          ELSE planning.entries
          /\ turn' = [t EXCEPT !.response = result, !.done = TRUE]
          /\ log' = Logged(turn')
          /\ pc' = "idle"

\* the turn and the counters once the planner has answered
PlanningDone(user_input, reply, intent_reply, planning) ==
  AfterPlanning(user_input, planning,
                [Begin(user_input) EXCEPT
                   !.path = "planned", !.planned = TRUE, !.reply = reply,
                   !.intent_reply = intent_reply, !.source = planning.source,
                   !.plan = planning.plan, !.llm_calls = planning.llm_calls,
                   !.ai_calls = planning.ai_calls],
                [execution_stats EXCEPT !.total_executions = @ + 1,
                                        !.ai_calls = @ + planning.ai_calls])

\* execute_task goes to the planner: the plan is made, and a conversational
\* plan is answered at once
TurnPlan(user_input) ==
  /\ pc = "idle"
  /\ turns < MaxTurns
  /\ check_cache(entries, user_input, now).response = NoValue
  /\ \/ user_input \in Agreeing /\ ~AgreementCue(WithUser(user_input))
     \/ user_input \notin Agreeing /\ user_input \notin Declining
  /\ \E reply \in PlannerReplies, intent_reply \in IntentReplies :
       /\ intent_reply # <<>> => AsksIntent(user_input, reply)
       /\ PlanningDone(user_input, reply, intent_reply,
                       analyze_and_plan(check_cache(entries, user_input, now).entries,
                                        user_input, now, reply,
                                        ParsedIntent[user_input][intent_reply]))
  /\ turns' = turns + 1
  /\ UNCHANGED componentVars
  /\ UNCHANGED <<now, api, ops>>

\* suggested_actions of the plan in execution
Actions == Get(turn.plan, "suggested_actions", <<>>)

\* _execute_plan takes the next action item and calls its handler; an item
\* that is no dict raises at action_item.get, outside the loop's try
DispatchAction ==
  /\ pc = "dispatch"
  /\ Len(turn.results) < Len(Actions)
  /\ LET action_item == Actions[Len(turn.results) + 1]
     IN IF action_item.py = "dict"
          THEN /\ turn' = [turn EXCEPT !.trace =
                             Append(@, [e |-> "start", i |-> Len(turn.results) + 1,
                                        result |-> NoValue, outcome |-> "none"])]
               /\ pc' = "handler"
               /\ UNCHANGED <<execution_stats, log>>
          ELSE LastResort([turn EXCEPT !.escaped = TRUE],
                          [type |-> "AttributeError",
                           message |-> (<<"'","s","t","r","'"," ","o","b","j","e","c","t"," ","h","a","s"," ","n","o"," ","a","t","t","r","i","b","u","t","e"," ","'","g","e","t","'">>)])
  /\ UNCHANGED componentVars
  /\ UNCHANGED <<entries, now, api, ops, context_history, turns>>

\* the handler returns or raises, and the dispatcher records the result
HandlerReturn(outcome) ==
  /\ pc = "handler"
  /\ LET i == turn.trace[Len(turn.trace)].i
         results == dispatch_result(turn.results, Actions[i], outcome, entries, now)
         \* the result this call produced
         produced == dispatch_result(<<>>, Actions[i], outcome, entries, now)[1]
     IN /\ outcome \in HandlerOutcomes(Actions[i])
        /\ turn' = [turn EXCEPT !.results = results,
                                !.trace = Append(@, [e |-> "result", i |-> i, result |-> produced,
                                                     outcome |-> outcome])]
        /\ entries' = execute_action_entries(Actions[i], outcome, entries, now)
  /\ pc' = "dispatch"
  /\ UNCHANGED componentVars
  /\ UNCHANGED <<now, api, ops, context_history, execution_stats, turns, log>>

\* every action has its result: _execute_plan composes the response and
\* execute_task stores and caches it
FinishPlan ==
  /\ pc = "dispatch"
  /\ Len(turn.results) = Len(Actions)
  /\ FinishPlanned(turn, combine_execution_results(turn.results, turn.plan))
  /\ UNCHANGED componentVars
  /\ UNCHANGED <<now, api, ops, execution_stats, turns>>

\* time passes between two turns
TimePasses ==
  /\ turns \in 1..(MaxTurns - 1)
  /\ Tick

Init ==
  /\ entries = <<>>
  /\ now = 0
  /\ api = [last |-> NoCall, prev |-> NoCall]
  /\ ops = 0
  /\ context_history = <<>>
  /\ execution_stats = NoStats
  /\ pc = "idle"
  /\ turn = NoTurn
  /\ turns = 0
  /\ log = <<>>
  /\ ComponentsIdle

Next ==
  \/ \E u \in UserInputs : TurnCacheHit(u)
  \/ \E u \in UserInputs, written \in BOOLEAN : TurnAgreement(u, written)
  \/ \E u \in UserInputs : TurnNegative(u)
  \/ \E u \in UserInputs : TurnPlan(u)
  \/ DispatchAction
  \/ \E outcome \in {"ok", "fail"} : HandlerReturn(outcome)
  \/ FinishPlan
  \/ TimePasses

Spec == Init /\ [][Next]_vars

(***************************************************************************)
(* Claims about execute_task (under Spec)                                  *)
(***************************************************************************)

\* a planned turn has come to its end without an exception
PlanExecuted ==
  /\ turn.done /\ turn.path = "planned" /\ ~turn.raised
  /\ Get(turn.plan, "requires_execution", FALSE)

\* C1: _execute_plan dispatches the entries of suggested_actions one at a time
\* in list order: action i+1 is not started before action i has produced its
\* result, and execution_results lists the results in the order of the plan's
\* actions.
C1_DispatchInOrder ==
  /\ \A k \in DOMAIN turn.trace :
       /\ turn.trace[k].i = (k + 1) \div 2
       /\ turn.trace[k].e = IF k % 2 = 1 THEN "start" ELSE "result"
  /\ PlanExecuted =>
       /\ Len(turn.response.execution_results) = Len(Actions)
       /\ \A i \in DOMAIN Actions :
            turn.response.execution_results[i] = turn.trace[2 * i].result

\* C1's case: a plan of several actions with different results has been executed
C1_Witness ==
  /\ PlanExecuted
  /\ Len(Actions) >= 2
  /\ turn.trace[2].result # turn.trace[4].result

\* C2: for every plan with N suggested actions, whatever a handler returns or
\* raises and whatever shape an action item has, _execute_plan attempts all N
\* actions and records exactly N results, and no exception escapes it.
C2_NoActionAbortsThePlan ==
  (turn.done /\ turn.path = "planned" /\ Get(turn.plan, "requires_execution", FALSE)) =>
    /\ ~turn.escaped
    /\ Len(turn.results) = Len(Actions)

\* the negative vocabulary, as words
NegativeVocabulary ==
  { << (<<"n","o">>) >>, << (<<"n","o","p","e">>) >>, << (<<"n","a","h">>) >>, << (<<"n","o","t">>) >>, << (<<"d","o","n","'","t">>) >>,
    << (<<"c","a","n","c","e","l">>) >>, << (<<"s","k","i","p">>) >>, << (<<"n","e","v","e","r">>), (<<"m","i","n","d">>) >>, << (<<"n","o">>), (<<"t","h","a","n","k","s">>) >> }

\* an input of at most 3 words that holds a phrase of the negative vocabulary
\* and no clarification ("no" followed by but, instead, please or wait)
ShortNegative(user_input) ==
  LET words == split(strip(lower(user_input)))
  IN /\ Len(words) <= 3
     /\ \E phrase \in NegativeVocabulary :
          \E k \in 1..(Len(words) - Len(phrase) + 1) :
            SubSeq(words, k, k + Len(phrase) - 1) = phrase
     /\ ~\E k \in 1..(Len(words) - 1) :
          /\ words[k] = (<<"n","o">>)
          /\ words[k + 1] \in {(<<"b","u","t">>), (<<"i","n","s","t","e","a","d">>), (<<"p","l","e","a","s","e">>), (<<"w","a","i","t">>)}

\* further inputs the two bypass checks are asked about: each phrase of the
\* vocabulary, phrases next to an agreement word, clarifications, and inputs
\* that are too long or hold a phrase only inside another word
NegativeSamples ==
  { (<<"n","o">>), (<<"N","o","p","e">>), (<<"n","a","h">>), (<<"n","o","t"," ","n","o","w">>), (<<"d","o","n","'","t">>), (<<"s","k","i","p"," ","i","t">>), (<<"n","e","v","e","r"," ","m","i","n","d">>), (<<"n","o"," ","t","h","a","n","k","s">>),
    (<<"o","k"," ","n","o"," ","t","h","a","n","k","s">>), (<<"y","e","s"," ","p","l","e","a","s","e"," ","c","a","n","c","e","l">>), (<<"n","o"," ","p","l","e","a","s","e">>), (<<"n","o"," ","b","u","t"," ","w","a","i","t">>),
    (<<"c","a","n","c","e","l"," ","a","l","l"," ","o","f"," ","i","t">>), (<<"n","o","t","h","i","n","g">>) }

\* every short negative sample fails the agreement check and passes the
\* negative one, so that the elif branch of execute_task answers it
SamplesDecline ==
  \A u \in NegativeSamples :
    ShortNegative(u) => (~is_agreement_response(u) /\ is_negative_response(u))

\* C4: for every input of at most 3 words that contains a negative-vocabulary
\* word and matches no clarification pattern, execute_task returns without the
\* planner or the LLM being invoked in that turn: ai_calls is unchanged.
C4_NegativeSkipsPlanner ==
  /\ SamplesDecline
  /\ (turn.path # "none" /\ ShortNegative(turn.input)) =>
    /\ ~turn.planned
    /\ turn.llm_calls = 0
    /\ turn.done
    /\ execution_stats.ai_calls = turn.before.ai_calls

\* C4's case: a short negative input that also holds an agreement word has been
\* answered, after earlier turns filled the context and the cache
C4_Witness ==
  /\ ShortNegative(turn.input)
  /\ turn.done
  /\ turn.path = "negative"
  /\ Len(log) > 1
  /\ entries # <<>>

\* calls i and j of execute_task: the same input after lower-casing and
\* trimming, j within the response TTL of i
SameInputWithinTtl(i, j) ==
  /\ i < j
  /\ strip(lower(log[i].input)) = strip(lower(log[j].input))
  /\ log[j].at - log[i].at <= TaskResponseTtl

Stored(call) ==
  /\ call.path = "planned"
  /\ Get(call.response, "success", TRUE)
  /\ JsonSerialisable(call.response)

C9_PlannerAlwaysPlans ==
  turn.planned =>
    /\ turn.raised => turn.escaped
    /\ turn.plan # NoValue
    /\ (turn.source # "cache" /\ ~json_loads(ExtractJson(turn.reply)).ok) =>
         LET intent_data == ParsedIntent[turn.input][turn.intent_reply].data
         IN /\ Len(turn.plan.suggested_actions) = 1
            /\ turn.plan.suggested_actions[1].action = Get(intent_data, "intent", None)
            /\ turn.plan.suggested_actions[1].target = Get(intent_data, "entity", None)

\* C9's case: the LLM answered the planning prompt with malformed JSON and the
\* intent prompt with an intent
C9_Witness ==
  /\ turn.planned
  /\ turn.source = "fallback"
  /\ ExtractJson(turn.reply) # <<>>
  /\ turn.intent_reply # <<>>

\* s.startswith(prefix)
StartsWith(s, prefix) == Len(s) >= Len(prefix) /\ SubSeq(s, 1, Len(prefix)) = prefix

\* C10: execute_task never lets an exception reach its caller: an exception
\* raised during a turn is caught by the last-resort handler, which returns the
\* apology with suggestions or the fallback path's result, and errors is
\* incremented exactly once for that turn.
C10_LastResortCatches ==
  /\ ~turn.propagated
  /\ (turn.done /\ turn.raised) =>
       /\ execution_stats.errors = turn.before.errors + 1
       /\ \/ /\ StartsWith(turn.response.message, (<<"S","o","r","r","y",","," ","I"," ","e","n","c","o","u","n","t","e","r","e","d"," ","a","n"," ","e","r","r","o","r",":"," ">>))
             /\ turn.response.suggestions # <<>>
          \/ turn.response = fallback_execution
  /\ (turn.done /\ ~turn.raised) => execution_stats.errors = turn.before.errors

\* C10's case: an exception was raised in a turn after an earlier one
C10_Witness ==
  /\ turn.done /\ turn.raised
  /\ turn.before.errors > 0

(***************************************************************************)
(* TaskExecutor._combine_execution_results on its own (SpecCompose)        *)
(***************************************************************************)

\* the longest list of results composed
MaxResults == 3

\* results as the handlers return them: _execute_open_app (done, failed, and
\* failed with the reason the plan gave), a 'success'-keyed automation result
\* without a message, and _execute_productivity_boost, whose message numbers
\* its own suggestions
ResultKinds ==
  { [py |-> "dict", status |-> "success", message |-> (<<"O","p","e","n","e","d"," ","n","o","t","e","p","a","d">>)],
    [py |-> "dict", status |-> "error", message |-> (<<"F","a","i","l","e","d"," ","t","o"," ","o","p","e","n"," ","x">>)],
    [py |-> "dict", status |-> "error", message |-> (<<"F","a","i","l","e","d">>), reason |-> (<<"w","h","y">>)],
    [py |-> "dict", success |-> TRUE],
    [py |-> "dict", status |-> "success", message |-> (<<"P","l","a","n",":","\n","1","."," ","r","e","s","t","\n","2","."," ","w","a","l","k","\n">>)] }

\* the plans the results belong to, with and without proactive suggestions
ComposePlans ==
  { [py |-> "dict", requires_execution |-> TRUE, response |-> (<<"O","n"," ","i","t">>)],
    [py |-> "dict", requires_execution |-> TRUE,
     proactive_suggestions |-> <<(<<"C","r","e","a","t","e"," ","a"," ","t","e","s","t"," ","f","i","l","e">>)>>] }

RECURSIVE ListsUpTo(_, _)
ListsUpTo(S, n) ==
  IF n = 0 THEN {<<>>}
  ELSE LET shorter == ListsUpTo(S, n - 1)
       IN shorter \cup {Append(xs, x) : xs \in {ys \in shorter : Len(ys) = n - 1}, x \in S}

InitCompose ==
  /\ entries = <<>>
  /\ now = 0
  /\ api = [last |-> NoCall, prev |-> NoCall]
  /\ ops = 0
  /\ context_history = <<>>
  /\ execution_stats = NoStats
  /\ pc = "compose"
  /\ \E results \in ListsUpTo(ResultKinds, MaxResults), plan \in ComposePlans :
       turn = [NoTurn EXCEPT !.plan = plan, !.results = results]
  /\ turns = 0
  /\ log = <<>>
  /\ ComponentsIdle

\* _execute_plan hands its results to _combine_execution_results
Compose ==
  /\ pc = "compose"
  /\ turn' = [turn EXCEPT !.response = combine_execution_results(turn.results, turn.plan),
                          !.done = TRUE]
  /\ pc' = "composed"
  /\ UNCHANGED componentVars
  /\ UNCHANGED <<entries, now, api, ops, context_history, execution_stats, turns, log>>

NextCompose == Compose

SpecCompose == InitCompose /\ [][NextCompose]_vars

\* where the lines of a text start
LineStarts(s) == {p \in 1..Len(s) : p = 1 \/ s[p - 1] = "\n"}

\* the end of the run of digits that starts at p
DigitsEnd(s, p) ==
  Least({e \in p..(Len(s) + 1) : e = Len(s) + 1 \/ s[e] \notin Digits})

\* the line of s starting at p is numbered: digits, a full stop, a space
IsNumberedLine(s, p) ==
  LET e == DigitsEnd(s, p)
  IN e > p /\ e + 1 <= Len(s) /\ s[e] = "." /\ s[e + 1] = " "

NumberedLines(s) == {p \in LineStarts(s) : IsNumberedLine(s, p)}

\* the numbered lines a result's message brings along after its first line
Embedded(r) ==
  LET msg == Get(r, "message", <<>>)
  IN Cardinality({p \in NumberedLines(msg) : p > 1})

RECURSIVE SumEmbedded(_)
SumEmbedded(results) ==
  IF results = <<>> THEN 0 ELSE Embedded(Head(results)) + SumEmbedded(Tail(results))

\* text occurs in s at position p
OccursAt(s, p, text) ==
  p + Len(text) - 1 <= Len(s) /\ SubSeq(s, p, p + Len(text) - 1) = text

\* the line the composer writes for action i: its number, its icon, its message
ActionLine(results, i) ==
  str_int(i) \o (<<"."," ">>) \o
  (IF is_success(results[i]) THEN <<"<check>">> ELSE <<"<cross>">>) \o (<<" ">>) \o
  LET msg == Get(results[i], "message", (<<"A","c","t","i","o","n"," ","c","o","m","p","l","e","t","e","d">>))
      ends == {p \in 1..Len(msg) : msg[p] = "\n"}
  IN IF ends = {} THEN msg ELSE SubSeq(msg, 1, Least(ends) - 1)

\* the composer's lines for actions 1..N appear in submission order
InSubmissionOrder(message, results) ==
  \E at \in [DOMAIN results -> LineStarts(message)] :
    /\ \A i \in DOMAIN results : OccursAt(message, at[i], ActionLine(results, i))
    /\ \A i \in DOMAIN results : \A j \in DOMAIN results : i < j => at[i] < at[j]

Composed == pc = "composed"

\* the status half of C3: 'success' if and only if at least one result succeeded
StatusIffAnySuccess ==
  /\ turn.response.status \in {"success", "error"}
  /\ turn.response.status = "success" <=> \E k \in DOMAIN turn.results : is_success(turn.results[k])

\* C3 as stated: status 'success' iff S >= 1, and the composed message contains
\* exactly N numbered lines, one per action, for every list of N results.
C3_ExactlyNNumberedLines ==
  Composed =>
    /\ StatusIffAnySuccess
    /\ Cardinality(NumberedLines(turn.response.message)) = Len(turn.results)

\* C3, amended: status 'success' iff S >= 1; for N >= 2 the composer writes
\* exactly N numbered lines, one per action, numbered 1..N in submission order,
\* the message's other numbered lines being those the results' own messages
\* carry; for N = 1 it writes none and the message begins with that result's
\* message, for N = 0 with the plan's response.
C3_NumberedLinesFromTwoActions ==
  Composed =>
    LET results == turn.results
        message == turn.response.message
        N == Len(results)
    IN /\ StatusIffAnySuccess
       /\ N >= 2 => /\ Cardinality(NumberedLines(message)) = N + SumEmbedded(results)
                    /\ InSubmissionOrder(message, results)
       /\ N = 1 => /\ OccursAt(message, 1, Get(results[1], "message", (<<"A","c","t","i","o","n"," ","c","o","m","p","l","e","t","e","d">>)))
                   /\ Cardinality(NumberedLines(message)) =
                        Cardinality(NumberedLines(Get(results[1], "message", <<>>)))
       /\ N = 0 => /\ OccursAt(message, 1, Get(turn.plan, "response", (<<"N","o"," ","a","c","t","i","o","n","s"," ","e","x","e","c","u","t","e","d">>)))
                   /\ NumberedLines(message) = {}

\* C3's case: three results, a failure among them and a success after it, and
\* a message that numbers lines of its own
C3_Witness ==
  /\ Composed
  /\ Len(turn.results) = 3
  /\ ~is_success(turn.results[1])
  /\ is_success(turn.results[3])
  /\ SumEmbedded(turn.results) > 0
  /\ turn.response.status = "success"

(***************************************************************************)
(* IntentParser.parse_intent called repeatedly (SpecParse)                 *)
(***************************************************************************)

\* the number of parse_intent calls in a run
MaxCalls == 2

\* inputs: one pattern, several patterns of different intents, a pattern
\* without a group, and no pattern at all
ParseInputs ==
  {(<<"O","p","e","n"," ","N","o","t","e","p","a","d"," ">>), (<<"s","h","o","w"," ","p","r","o","c","e","s","s","e","s">>), (<<"r","u","n"," ","p","i","n","g">>), (<<"p","i","n","g">>), (<<"w","r","i","t","e"," ","h","e","l","l","o">>), (<<"l","i","s","t"," ","f","i","l","e","s"," ","i","n"," ","d","o","c","s">>)}

\* what parse_intent returns for each input and each LLM reply
Parsed ==
  [u \in ParseInputs |-> [r \in IntentReplies |-> parse_intent(u, r)]]

\* the patterns re.search finds in each input, lower-cased and trimmed
Matching ==
  [u \in ParseInputs |->
     {k \in 1..Len(PatternOrder) : re_search(PatternOrder[k].pattern, strip(lower(u))).ok}]

InitParse ==
  /\ entries = <<>>
  /\ now = 0
  /\ api = [last |-> NoCall, prev |-> NoCall]
  /\ ops = 0
  /\ context_history = <<>>
  /\ execution_stats = NoStats
  /\ pc = "parse"
  /\ turn = NoTurn
  /\ turns = 0
  /\ log = <<>>
  /\ ComponentsIdle

\* one call of parse_intent; reply is what the LLM says if it is asked
ParseIntent(user_input, reply) ==
  /\ pc = "parse"
  /\ Len(log) < MaxCalls
  /\ log' = Append(log, [input |-> user_input, reply |-> reply,
                         result |-> Parsed[user_input][reply]])
  /\ UNCHANGED componentVars
  /\ UNCHANGED <<entries, now, api, ops, context_history, execution_stats, pc, turn, turns>>

NextParse == \E u \in ParseInputs, reply \in IntentReplies : ParseIntent(u, reply)

SpecParse == InitParse /\ [][NextParse]_vars

\* pattern k is the earliest in table order that matches the call's input
Earliest(call, k) ==
  /\ k \in Matching[call.input]
  /\ \A j \in Matching[call.input] : k <= j

\* the first capture group of pattern k in the call's input, None if the
\* pattern has no group
FirstGroup(call, k) ==
  LET text == strip(lower(call.input))
      pat == PatternOrder[k].pattern
  IN IF pat.groups > 0 THEN group(text, re_search(pat, text), 1) ELSE None

\* C8: for every input that matches at least one table regex parse_intent returns
\* the intent of the earliest matching table entry with the entity of that
\* regex's first capture group (None if it has none), and the result depends
\* only on the input text, not on earlier calls or call order.
C8_FirstMatchWins ==
  \A i \in DOMAIN log :
    Matching[log[i].input] # {} =>
      /\ \E k \in Matching[log[i].input] :
           /\ Earliest(log[i], k)
           /\ log[i].result.intent = PatternOrder[k].intent
           /\ log[i].result.entity = FirstGroup(log[i], k)
           /\ log[i].result.method = "pattern"
      /\ \A j \in DOMAIN log :
           log[j].input = log[i].input => log[j].result = log[i].result

\* C8's case: an input that patterns of several intents match was parsed after
\* a call with another input, and then parsed again with another LLM reply
C8_Witness ==
  \E i \in DOMAIN log : \E j \in DOMAIN log :
    /\ i < j
    /\ log[i].input # log[j].input
    /\ \E a \in Matching[log[j].input] : \E b \in Matching[log[j].input] :
         PatternOrder[a].intent # PatternOrder[b].intent
    /\ log[j].result.intent = (<<"l","i","s","t","_","d","i","r","e","c","t","o","r","y">>)

(***************************************************************************)
(* MemoryManager: the request thread and the backup worker                 *)
(***************************************************************************)

\* the number of add_task calls in a run
MaxAdds == 2

\* the number of store_conversation calls in a run
MaxStored == 1

\* a call as it starts
Call(op) == [NoMemoryCall EXCEPT !.op = op]

\* add_task(task_description) on the request thread
AddTask(task_description) ==
  /\ threads["request"].pc = "idle"
  /\ Len(added) < MaxAdds
  /\ tasks' = insert(tasks, next_id, new_task(task_description, (<<"n","o","r","m","a","l">>), now))
  /\ next_id' = next_id + 1
  /\ added' = Append(added, [doc_id |-> next_id,
                             doc |-> new_task(task_description, (<<"n","o","r","m","a","l">>), now)])
  /\ threads' = [threads EXCEPT !["request"] =
                   [Call("add_task") EXCEPT !.result = strftime(now)]]
  /\ UNCHANGED <<completed_tasks, conversations, lock>>
  /\ UNCHANGED <<entries, now, api, ops, context_history, execution_stats, pc, turn, turns, log, guiVars, expert, utilVars>>

\* complete_task(task_id) up to its search of the pending table; task_id is
\* any text add_task can have returned
CompleteTask(task_id) ==
  /\ threads["request"].pc = "idle"
  /\ threads' = [threads EXCEPT !["request"] =
                   [Call("complete_task") EXCEPT
                      !.task_id = task_id,
                      !.task = search(tasks, task_id),
                      !.before = [tasks |-> tasks, completed_tasks |-> completed_tasks],
                      !.pc = IF search(tasks, task_id) # <<>> THEN "insert" ELSE "idle"]]
  /\ UNCHANGED <<tasks, completed_tasks, conversations, next_id, lock, added>>
  /\ UNCHANGED <<entries, now, api, ops, context_history, execution_stats, pc, turn, turns, log, guiVars, expert, utilVars>>

\* complete_task: self.completed_tasks.insert(task_data)
CompleteInsert ==
  /\ threads["request"].pc = "insert"
  /\ completed_tasks' = Append(completed_tasks, task_data(threads["request"].task, now))
  /\ threads' = [threads EXCEPT !["request"].pc = "remove"]
  /\ UNCHANGED <<tasks, conversations, next_id, lock, added>>
  /\ UNCHANGED <<entries, now, api, ops, context_history, execution_stats, pc, turn, turns, log, guiVars, expert, utilVars>>

\* complete_task: self.tasks.remove(Task.id == task_id)
CompleteRemove ==
  /\ threads["request"].pc = "remove"
  /\ tasks' = remove(tasks, threads["request"].task_id)
  /\ threads' = [threads EXCEPT !["request"].pc = "idle"]
  /\ UNCHANGED <<completed_tasks, conversations, next_id, lock, added>>
  /\ UNCHANGED <<entries, now, api, ops, context_history, execution_stats, pc, turn, turns, log, guiVars, expert, utilVars>>

\* store_conversation on the request thread
StoreConversation ==
  /\ threads["request"].pc = "idle"
  /\ Len(conversations) < MaxStored
  /\ conversations' = Append(conversations, [timestamp |-> now])
  /\ threads' = [threads EXCEPT !["request"] = Call("store_conversation")]
  /\ UNCHANGED <<tasks, completed_tasks, next_id, lock, added>>
  /\ UNCHANGED <<entries, now, api, ops, context_history, execution_stats, pc, turn, turns, log, guiVars, expert, utilVars>>

\* get_pending_tasks on the request thread
GetPendingTasks ==
  /\ threads["request"].pc = "idle"
  /\ threads' = [threads EXCEPT !["request"] =
                   [Call("get_pending_tasks") EXCEPT
                      !.result = SelectSeq(tasks, LAMBDA r : r.doc.status = (<<"p","e","n","d","i","n","g">>))]]
  /\ UNCHANGED <<tasks, completed_tasks, conversations, next_id, lock, added>>
  /\ UNCHANGED <<entries, now, api, ops, context_history, execution_stats, pc, turn, turns, log, guiVars, expert, utilVars>>

\* create_backup on the backup worker, up to its reading of the memory database
CreateBackup ==
  /\ threads["backup"].pc = "idle"
  /\ threads' = [threads EXCEPT !["backup"] =
                   [Call("create_backup") EXCEPT
                      !.pc = "tasks_db", !.result = conversations]]
  /\ UNCHANGED <<tasks, completed_tasks, conversations, next_id, lock, added>>
  /\ UNCHANGED <<entries, now, api, ops, context_history, execution_stats, pc, turn, turns, log, guiVars, expert, utilVars>>

\* create_backup: the tasks database is read, with both of its tables
BackupTasks ==
  /\ threads["backup"].pc = "tasks_db"
  /\ threads' = [threads EXCEPT !["backup"].pc = "idle",
                                !["backup"].before =
                                   [tasks |-> tasks, completed_tasks |-> completed_tasks]]
  /\ UNCHANGED <<tasks, completed_tasks, conversations, next_id, lock, added>>
  /\ UNCHANGED <<entries, now, api, ops, context_history, execution_stats, pc, turn, turns, log, guiVars, expert, utilVars>>

\* the clock moves between the steps of the threads
MemoryTick == Tick

InitMemory ==
  /\ entries = <<>>
  /\ now = 0
  /\ api = [last |-> NoCall, prev |-> NoCall]
  /\ ops = 0
  /\ context_history = <<>>
  /\ execution_stats = NoStats
  /\ pc = "idle"
  /\ turn = NoTurn
  /\ turns = 0
  /\ log = <<>>
  /\ ComponentsIdle

NextMemory ==
  \/ \E d \in { (<<"a">>), (<<"b">>) } : AddTask(d)
  \/ \E k \in 0..MaxTicks : CompleteTask(strftime(k * TickStep))
  \/ CompleteInsert
  \/ CompleteRemove
  \/ StoreConversation
  \/ GetPendingTasks
  \/ CreateBackup
  \/ BackupTasks
  \/ MemoryTick

SpecMemory == InitMemory /\ [][NextMemory]_vars

(***************************************************************************)
(* Claims about MemoryManager (under SpecMemory)                           *)
(***************************************************************************)

DocIds(table) == {table[i].doc_id : i \in DOMAIN table}

\* the request thread is between calls
Quiescent == threads["request"].pc = "idle"

\* every record ever added is in exactly one of the two tables
InExactlyOneTable ==
  \A i \in DOMAIN added :
    (added[i].doc_id \in DocIds(tasks)) # (added[i].doc_id \in DocIds(completed_tasks))

\* a finished complete_task that found its id moved one record, marked
\* completed, and left the others where they were
MovedOne ==
  LET call == threads["request"]
  IN (call.op = "complete_task" /\ call.pc = "idle" /\ call.task # <<>>) =>
       \E i \in DOMAIN call.before.tasks :
         /\ call.before.tasks[i].doc.id = call.task_id
         /\ tasks = SelectSeq(call.before.tasks,
                              LAMBDA r : r.doc_id # call.before.tasks[i].doc_id)
         /\ Len(completed_tasks) = Len(call.before.completed_tasks) + 1
         /\ SubSeq(completed_tasks, 1, Len(call.before.completed_tasks))
              = call.before.completed_tasks
         /\ completed_tasks[Len(completed_tasks)].doc_id = call.before.tasks[i].doc_id
         /\ completed_tasks[Len(completed_tasks)].doc.status = (<<"c","o","m","p","l","e","t","e","d">>)

\* C11: tasks are never deleted. Between calls, every task ever added is in
\* exactly one of the pending table and the completed table, and a
\* complete_task(id) that found its task has moved that one task to the
\* completed table with status 'completed' and left every other task in place.
C11_TasksNeverDeleted == Quiescent => (InExactlyOneTable /\ MovedOne)

\* C12: every MemoryManager call that reads or writes the tables runs while its
\* thread holds the manager's lock, so no two threads are inside calls at
\* once (the backup worker never reads the tables between complete_task's
\* insert and its remove).
C12_SerializedByLock ==
  /\ \A th \in MemoryThreads : threads[th].pc # "idle" => lock = th
  /\ ~(threads["request"].pc # "idle" /\ threads["backup"].pc # "idle")


(***************************************************************************)
(* GemmaMainWindow: typed and spoken submits, the worker and its signals   *)
(***************************************************************************)

\* the number of WorkerThreads started in a run
MaxStarts == 2

outsideGui ==
  <<entries, now, api, ops, context_history, execution_stats, pc, turn, turns, log, memoryVars,
    expert, utilVars>>

\* send_message runs on the GUI thread with the input field as it is
Submitted(field, by) ==
  /\ gui_log.starts < MaxStarts
  /\ window' = send_message([window EXCEPT !.input_field = field]).window
  /\ running' = running
                + (IF send_message([window EXCEPT !.input_field = field]).start THEN 1 ELSE 0)
  /\ gui_log' = [starts |-> gui_log.starts
                            + (IF send_message([window EXCEPT !.input_field = field]).start
                                 THEN 1 ELSE 0),
                 last |-> [by |-> by, busy |-> window.is_processing,
                           start |-> send_message([window EXCEPT !.input_field = field]).start]]

\* the user edits the input field
TypeText(text) ==
  /\ window.input_field # text
  /\ window' = [window EXCEPT !.input_field = text]
  /\ UNCHANGED <<running, voice, signals, gui_log>>
  /\ UNCHANGED outsideGui

\* Return in the input field, or a click on the send button
SendMessage ==
  /\ Submitted(window.input_field, "typed")
  /\ UNCHANGED <<voice, signals>>
  /\ UNCHANGED outsideGui

\* WorkerThread.run: execute_task returns (result_ready) or raises
\* (error_occurred); the signal is queued for the GUI thread
WorkerDone(signal) ==
  /\ running > 0
  /\ running' = running - 1
  /\ signals' = Append(signals, [name |-> signal, arg |-> <<>>])
  /\ UNCHANGED <<window, voice, gui_log>>
  /\ UNCHANGED outsideGui

\* toggle_voice: a click on the voice button
ToggleVoice ==
  /\ ~window.is_listening
  /\ voice = "none"
  /\ window' = [window EXCEPT !.is_listening = TRUE]
  /\ voice' = "started"
  /\ UNCHANGED <<running, signals, gui_log>>
  /\ UNCHANGED outsideGui

\* VoiceThread.run up to voice_manager.listen
VoiceListens ==
  /\ voice = "started"
  /\ voice' = "listening"
  /\ signals' = Append(signals, [name |-> "listening_status", arg |-> <<TRUE>>])
  /\ UNCHANGED <<window, running, gui_log>>
  /\ UNCHANGED outsideGui

\* VoiceThread.run from the return of voice_manager.listen, which heard
\* nothing or a text
VoiceHeard(text) ==
  /\ voice = "listening"
  /\ voice' = "none"
  /\ signals' = signals
                \o (IF text # <<>> THEN <<[name |-> "speech_recognized", arg |-> text]>>
                    ELSE <<>>)
                \o <<[name |-> "listening_status", arg |-> <<FALSE>>]>>
  /\ UNCHANGED <<window, running, gui_log>>
  /\ UNCHANGED outsideGui

\* on_result_ready and on_error_occurred
OnWorkerSignal ==
  /\ signals # <<>>
  /\ Head(signals).name \in {"result_ready", "error_occurred"}
  /\ window' = [window EXCEPT !.is_processing = FALSE]
  /\ signals' = Tail(signals)
  /\ UNCHANGED <<running, voice, gui_log>>
  /\ UNCHANGED outsideGui

\* on_speech_recognized
OnSpeechRecognized ==
  /\ signals # <<>>
  /\ Head(signals).name = "speech_recognized"
  /\ Submitted(Head(signals).arg, "voice")
  /\ signals' = Tail(signals)
  /\ UNCHANGED voice
  /\ UNCHANGED outsideGui

\* on_listening_status_changed
OnListeningStatusChanged ==
  /\ signals # <<>>
  /\ Head(signals).name = "listening_status"
  /\ window' = [window EXCEPT !.is_listening = Head(signals).arg[1]]
  /\ signals' = Tail(signals)
  /\ UNCHANGED <<running, voice, gui_log>>
  /\ UNCHANGED outsideGui

InitGui ==
  /\ entries = <<>>
  /\ now = 0
  /\ api = [last |-> NoCall, prev |-> NoCall]
  /\ ops = 0
  /\ context_history = <<>>
  /\ execution_stats = NoStats
  /\ pc = "gui"
  /\ turn = NoTurn
  /\ turns = 0
  /\ log = <<>>
  /\ ComponentsIdle

NextGui ==
  \/ \E text \in { (<<"h","i">>), (<<" ">>) } : TypeText(text)
  \/ SendMessage
  \/ \E signal \in {"result_ready", "error_occurred"} : WorkerDone(signal)
  \/ ToggleVoice
  \/ VoiceListens
  \/ \E text \in { <<>>, (<<"h","i">>) } : VoiceHeard(text)
  \/ OnWorkerSignal
  \/ OnSpeechRecognized
  \/ OnListeningStatusChanged

SpecGui == InitGui /\ [][NextGui]_vars

\* the turns in flight: workers inside execute_task, and finished workers
\* whose signal the GUI thread has not handled yet
InFlight ==
  running + Len(SelectSeq(signals, LAMBDA s : s.name \in {"result_ready", "error_occurred"}))

\* C13: at most one turn is in flight in the GUI. A WorkerThread is started
\* only by a send_message that found is_processing false, is_processing is
\* true exactly while a worker runs or its result_ready / error_occurred is
\* still to be handled, and a typed or spoken submit that arrives meanwhile
\* starts no second execute_task.
C13_OneTurnInFlight ==
  /\ running <= 1
  /\ InFlight <= 1
  /\ window.is_processing <=> (InFlight = 1)
  /\ gui_log.last.busy => ~gui_log.last.start

\* a spoken submit arrived while a worker was inside execute_task and was
\* dropped
C13_Witness ==
  /\ gui_log.last.by = "voice"
  /\ gui_log.last.busy
  /\ running = 1
  /\ window.input_field = (<<"h","i">>)


(***************************************************************************)
(* WindowsCommandExpert.execute_dynamic_command, one command at a time     *)
(***************************************************************************)

\* the number of execute_dynamic_command calls in a run
MaxCommands == 1

\* the commands execute_dynamic_command is called with.  The main command is
\* an information command, a GUI tool, or a CLI command (one with
\* alternatives of its own, one without); the purpose does or does not ask
\* for the generic alternative; the fallback lists hold up to two commands.
CommandInfos ==
  { [command |-> c, purpose |-> p, explanation |-> (<<"w","h","y">>), fallback_commands |-> f] :
      c \in { (<<"e","c","h","o"," ","o","k">>), (<<"r","e","g","e","d","i","t">>), (<<"t","a","s","k","l","i","s","t">>), (<<"d","i","r">>) },
      p \in { (<<"r","u","n">>), (<<"c","h","e","c","k">>) },
      f \in { <<>>, <<(<<"e","c","h","o"," ","o","k">>)>>, <<(<<"t","a","s","k","l","i","s","t">>), (<<"e","c","h","o"," ","o","k">>)>>, <<(<<"r","e","g","e","d","i","t">>), (<<"d","i","r">>)>>,
          <<(<<"d","i","r">>), (<<"t","a","s","k","l","i","s","t">>)>> } }

outsideExpert ==
  <<entries, now, api, ops, context_history, execution_stats, pc, turn, turns, log, memoryVars,
    guiVars, utilVars>>

\* one command run by _execute_single_command_with_ai_correction, as the log
\* of attempts keeps it
Attempt(phase, command, call) ==
  [phase |-> phase, command |-> command, ran |-> call.ran,
   status |-> IF call.raised THEN "raised" ELSE call.result.status]

\* execute_dynamic_command(command_info) is called
ExecuteDynamicCommand(command_info) ==
  /\ expert.pc = "idle"
  /\ expert.calls < MaxCommands
  /\ expert' = [expert EXCEPT !.pc = "main", !.command_info = command_info, !.i = 0,
                              !.result = NoValue, !.attempts = <<>>, !.raised = "",
                              !.returned = FALSE, !.current_step = @ + 1,
                              !.calls = @ + 1]
  /\ UNCHANGED outsideExpert

\* the main command is tried
RunMain(outcome) ==
  /\ expert.pc = "main"
  /\ LET call == execute_single_command_with_ai_correction(
                   expert.command_info.command, expert.command_info.explanation, outcome)
     IN expert' =
          IF call.raised
            THEN [expert EXCEPT !.pc = "idle", !.raised = call.error,
                                !.attempts = Append(@, Attempt("main", expert.command_info.command, call))]
            ELSE [expert EXCEPT
                    !.pc = IF call.result.status # "success"
                              /\ expert.command_info.fallback_commands # <<>>
                             THEN "fallback" ELSE "tried",
                    !.i = 1, !.result = call.result,
                    !.attempts = Append(@, Attempt("main", expert.command_info.command, call))]
  /\ UNCHANGED outsideExpert

\* the next fallback command is tried
RunFallback(outcome) ==
  /\ expert.pc = "fallback"
  /\ LET fallback_cmd == expert.command_info.fallback_commands[expert.i]
         call == execute_single_command_with_ai_correction(
                   fallback_cmd,
                   (<<"A","l","t","e","r","n","a","t","i","v","e"," ","a","p","p","r","o","a","c","h",":"," ">>) \o expert.command_info.explanation, outcome)
     IN expert' =
          IF call.raised
            THEN [expert EXCEPT !.pc = "idle", !.raised = call.error,
                                !.attempts = Append(@, Attempt("fallback", fallback_cmd, call))]
            ELSE [expert EXCEPT
                    !.pc = IF try_next_fallback(call.result)
                              /\ expert.i < Len(expert.command_info.fallback_commands)
                             THEN "fallback" ELSE "tried",
                    !.i = IF try_next_fallback(call.result)
                             /\ expert.i < Len(expert.command_info.fallback_commands)
                            THEN @ + 1 ELSE 1,
                    !.result = IF call.result.status = "success"
                                 THEN used_fallback(call.result, fallback_cmd) ELSE @,
                    !.attempts = Append(@, Attempt("fallback", fallback_cmd, call))]
  /\ UNCHANGED outsideExpert

\* the alternatives _try_ai_guided_alternative goes through
Alternatives ==
  generate_intelligent_alternatives(expert.command_info.command, expert.command_info.purpose)

\* _try_ai_guided_alternative: the next alternative is tried; when none is
\* left, the method _get_ai_failure_recommendation it calls does not exist
TryAiGuidedAlternative(outcome) ==
  /\ expert.pc = "tried"
  /\ expert.result.status # "success"
  /\ IF expert.i > Len(Alternatives)
       THEN expert' = [expert EXCEPT !.pc = "idle", !.raised = "AttributeError"]
       ELSE LET call == execute_single_command_with_ai_correction(
                          Alternatives[expert.i], (<<"a","l","t","e","r","n","a","t","i","v","e">>), outcome)
            IN expert' =
                 IF call.raised
                   THEN [expert EXCEPT !.pc = "idle", !.raised = call.error,
                           !.attempts = Append(@, Attempt("alternative", Alternatives[expert.i], call))]
                   ELSE [expert EXCEPT
                           !.i = @ + 1,
                           !.result = IF call.result.status = "success"
                                        THEN ai_alternative_used(call.result,
                                               expert.command_info.command, (<<"a","l","t","e","r","n","a","t","i","v","e">>))
                                        ELSE @,
                           !.attempts = Append(@, Attempt("alternative", Alternatives[expert.i], call))]
  /\ UNCHANGED outsideExpert

\* a result with status 'success' is counted, gets its guidance and is
\* returned
ReturnResult ==
  /\ expert.pc = "tried"
  /\ expert.result.status = "success"
  /\ expert' = [expert EXCEPT
                  !.pc = "idle", !.returned = TRUE,
                  !.successful_commands = @ + 1,
                  !.result = with_guidance(expert.result, expert.command_info.purpose,
                                           expert.successful_commands + 1,
                                           expert.current_step)]
  /\ UNCHANGED outsideExpert

InitExpert ==
  /\ entries = <<>>
  /\ now = 0
  /\ api = [last |-> NoCall, prev |-> NoCall]
  /\ ops = 0
  /\ context_history = <<>>
  /\ execution_stats = NoStats
  /\ pc = "expert"
  /\ turn = NoTurn
  /\ turns = 0
  /\ log = <<>>
  /\ ComponentsIdle

NextExpert ==
  \/ \E command_info \in CommandInfos : ExecuteDynamicCommand(command_info)
  \/ \E outcome \in SubprocessOutcomes : RunMain(outcome)
  \/ \E outcome \in SubprocessOutcomes : RunFallback(outcome)
  \/ \E outcome \in SubprocessOutcomes : TryAiGuidedAlternative(outcome)
  \/ ReturnResult

SpecExpert == InitExpert /\ [][NextExpert]_vars

(***************************************************************************)
(* Claims about execute_dynamic_command (under SpecExpert)                 *)
(***************************************************************************)

\* the fallback commands tried so far, in the order they were tried
FallbacksTried ==
  SelectSeq(expert.attempts, LAMBDA a : a.phase = "fallback")

\* the main command returned a result whose status is not 'success'
MainFailed ==
  /\ expert.attempts # <<>>
  /\ expert.attempts[1].status \in {"error", "timeout"}

\* the fallbacks were tried in list order, and none after one that succeeded
FallbacksInOrder ==
  /\ Len(FallbacksTried) <= Len(expert.command_info.fallback_commands)
  /\ \A k \in DOMAIN FallbacksTried :
       /\ FallbacksTried[k].command = expert.command_info.fallback_commands[k]
       /\ k < Len(FallbacksTried) => FallbacksTried[k].status # "success"

\* C14: in execute_dynamic_command, when the main command's result is not a
\* success and there are fallback commands, the fallbacks are tried in list
\* order and none is tried after one has succeeded; a call that returns after
\* a fallback succeeded returns that fallback's result: status 'success',
\* used_fallback true and fallback_command the command that succeeded.  No
\* fallback is tried when the main command succeeded.
C14_FirstSuccessfulFallback ==
  /\ (expert.command_info # NoValue /\ MainFailed) => FallbacksInOrder
  /\ (expert.command_info # NoValue /\ ~MainFailed) => FallbacksTried = <<>>
  /\ (expert.returned /\ FallbacksTried # <<>>
        /\ FallbacksTried[Len(FallbacksTried)].status = "success") =>
       /\ expert.result.status = "success"
       /\ Get(expert.result, "used_fallback", FALSE) = TRUE
       /\ Get(expert.result, "fallback_command", <<>>)
            = FallbacksTried[Len(FallbacksTried)].command
       /\ expert.result.command = FallbacksTried[Len(FallbacksTried)].command
  /\ (expert.returned /\ Get(expert.result, "used_fallback", FALSE) = TRUE) =>
       /\ FallbacksTried # <<>>
       /\ FallbacksTried[Len(FallbacksTried)].status = "success"

\* the main command failed, the first fallback failed too, the second
\* succeeded and its result was returned
C14_Witness ==
  /\ expert.returned
  /\ MainFailed
  /\ Len(FallbacksTried) = 2
  /\ FallbacksTried[1].status = "error"
  /\ Get(expert.result, "used_fallback", FALSE) = TRUE
  /\ expert.result.fallback_command = (<<"t","a","s","k","l","i","s","t">>)


(***************************************************************************)
(* TaskExecutor._execute_plan on plans with shell commands, Windows        *)
(* requests and action names the dispatcher does not know                  *)
(***************************************************************************)

MaxActions == 2

\* a shell command for system_tools.run_command
ActionRun == [py |-> "dict", action |-> (<<"r","u","n","_","c","o","m","m","a","n","d">>), target |-> (<<"d","i","r">>), reason |-> (<<"l","i","s","t">>)]

\* a Windows request with a high-risk keyword
ActionWinDelete ==
  [py |-> "dict", action |-> (<<"w","i","n","d","o","w","s","_","c","o","m","m","a","n","d">>), target |-> (<<"d","e","l","e","t","e"," ","t","e","m","p"," ","f","i","l","e","s">>)]

\* a Windows request without one, given under the key command
ActionWinShow == [py |-> "dict", action |-> (<<"w","i","n","d","o","w","s","_","c","o","m","m","a","n","d">>), command |-> (<<"s","h","o","w"," ","i","p">>)]

\* an action item without an action name
ActionNameless == [py |-> "dict", reason |-> (<<"w","h","y">>)]

\* the action names of the dispatcher's elif chain
known_actions ==
  { (<<"o","p","e","n","_","a","p","p">>), (<<"c","l","o","s","e","_","a","p","p">>), (<<"c","r","e","a","t","e","_","f","i","l","e">>), (<<"r","e","a","d","_","f","i","l","e">>), (<<"l","i","s","t","_","d","i","r","e","c","t","o","r","y">>),
    (<<"r","u","n","_","c","o","m","m","a","n","d">>), (<<"a","d","d","_","t","a","s","k">>), (<<"a","n","a","l","y","z","e","_","s","y","s","t","e","m">>), (<<"s","c","a","n","_","w","i","f","i">>),
    (<<"s","c","a","n","_","a","v","a","i","l","a","b","l","e","_","w","i","f","i">>), (<<"w","i","n","d","o","w","s","_","c","o","m","m","a","n","d">>), (<<"k","e","y","b","o","a","r","d","_","s","h","o","r","t","c","u","t">>),
    (<<"o","r","g","a","n","i","z","e","_","f","i","l","e","s">>), (<<"s","y","s","t","e","m","_","c","l","e","a","n","u","p">>), (<<"p","r","o","d","u","c","t","i","v","i","t","y","_","b","o","o","s","t">>),
    (<<"c","o","m","p","u","t","e","r","_","a","u","t","o","m","a","t","i","o","n">>), (<<"s","c","r","e","e","n","_","a","n","a","l","y","s","i","s">>), (<<"w","e","b","_","a","u","t","o","m","a","t","i","o","n">>),
    (<<"t","a","s","k","_","a","u","t","o","m","a","t","i","o","n">>) }

\* the plans _execute_plan is called with
DispatchPlans ==
  { [py |-> "dict", requires_execution |-> TRUE, suggested_actions |-> actions,
     proactive_suggestions |-> suggestions, response |-> (<<"O","n"," ","i","t",".">>)] :
      actions \in ListsUpTo({ActionOpen, ActionRun, ActionWinDelete, ActionWinShow,
                             ActionDance, ActionNameless, NotADict}, MaxActions),
      suggestions \in {<<>>, << (<<"C","r","e","a","t","e"," ","a"," ","t","e","s","t"," ","f","i","l","e">>) >>} }

\* execute_task has planned the input and calls _execute_plan
InitDispatch ==
  /\ entries = <<>>
  /\ now = 0
  /\ api = [last |-> NoCall, prev |-> NoCall]
  /\ ops = 0
  /\ context_history = << (<<"U","s","e","r",":"," ","g","o">>) >>
  /\ execution_stats = [NoStats EXCEPT !.total_executions = 1]
  /\ pc = "dispatch"
  /\ \E plan \in DispatchPlans :
       turn = [NoTurn EXCEPT !.input = (<<"g","o">>), !.path = "planned", !.planned = TRUE,
                             !.source = "llm", !.plan = plan]
  /\ turns = 1
  /\ log = <<>>
  /\ ComponentsIdle

NextDispatch ==
  \/ DispatchAction
  \/ \E outcome \in {"ok", "fail", "timeout", "raise"} : HandlerReturn(outcome)
  \/ FinishPlan

SpecDispatch == InitDispatch /\ [][NextDispatch]_vars

\* the results the dispatcher has recorded, as positions of the trace
Recorded == {k \in DOMAIN turn.trace : turn.trace[k].e = "result"}

\* the dispatcher is back at the head of its loop after the result at k
LoopGoesOn(k) ==
  /\ (k = Len(turn.trace) /\ ~turn.done) => pc = "dispatch"
  /\ (/\ turn.done
      /\ turn.trace[k].i < Len(Actions)
      /\ Actions[turn.trace[k].i + 1].py = "dict") => Len(turn.results) > turn.trace[k].i

\* C15: when a shell command run for an action exceeds its fixed timeout, the
\* result of that action has status 'timeout', and the dispatcher continues
\* with the next action of the plan.
C15_TimeoutStatus ==
  \A k \in Recorded :
    turn.trace[k].outcome = "timeout" =>
      /\ Get(turn.trace[k].result, "status", "") = "timeout"
      /\ LoopGoesOn(k)

\* the request of a windows_command action is classified high-risk
HighRisk(action_item) ==
  /\ action_item.py = "dict"
  /\ Get(action_item, "action", None) = (<<"w","i","n","d","o","w","s","_","c","o","m","m","a","n","d">>)
  /\ assess_safety_level(WindowsRequest(action_item)) = "high_risk"

\* C16: a windows_command action whose request text is classified high-risk
\* is not executed as a shell command in that turn: its handler returns a
\* result that requires explicit user confirmation, and no subprocess is run
\* for it (the handler has one outcome, that of a call without a subprocess).
C16_HighRiskAsksConfirmation ==
  \A k \in Recorded :
    HighRisk(Actions[turn.trace[k].i]) =>
      /\ Get(turn.trace[k].result, "requires_confirmation", FALSE) = TRUE
      /\ turn.trace[k].outcome = "ok"

\* the action name of a dict item is none the dispatcher knows
Unknown(action_item) ==
  /\ action_item.py = "dict"
  /\ Get(action_item, "action", None) \notin known_actions

\* C17: an action whose name is not one of the dispatcher's known action names
\* produces a result with status 'info' that says the action is not
\* implemented; it does not raise, the overall status of the plan is the one
\* the other actions give it, and the actions after it are still executed.
C17_UnknownActionIsNoted ==
  /\ \A k \in Recorded :
       Unknown(Actions[turn.trace[k].i]) =>
         /\ Get(turn.trace[k].result, "status", "") = "info"
         /\ Contains(turn.trace[k].result.message, (<<"n","o","t"," ","y","e","t"," ","i","m","p","l","e","m","e","n","t","e","d">>))
         /\ LoopGoesOn(k)
  /\ PlanExecuted =>
       (turn.response.status = "success"
          <=> \E i \in DOMAIN turn.results :
                ~Unknown(Actions[i]) /\ is_success(turn.results[i]))

\* C17's case: a plan whose first action is unknown and whose second action
\* succeeded has been executed
C17_Witness ==
  /\ PlanExecuted
  /\ Len(Actions) = 2
  /\ Unknown(Actions[1])
  /\ turn.trace[2].result.status = "info"
  /\ is_success(turn.results[2])
  /\ turn.response.status = "success"

(***************************************************************************)
(* TaskExecutor.execute_task on replies to an earlier turn                 *)
(***************************************************************************)

NextReply ==
  \/ \E u \in ReplyInputs : TurnCacheHit(u)
  \/ \E u \in ReplyInputs : TurnNegative(u)
  \/ \E u \in ReplyInputs : TurnPlan(u)
  \/ DispatchAction
  \/ \E outcome \in {"ok", "fail"} : HandlerReturn(outcome)
  \/ FinishPlan
  \/ TimePasses

SpecReply == Init /\ [][NextReply]_vars

\* the response of a turn suggested the creation of a file
SuggestsFile(response) ==
  \E k \in DOMAIN Get(response, "suggestions", <<>>) :
    Contains(lower(response.suggestions[k]), (<<"c","r","e","a","t","e"," ","a"," ","t","e","s","t"," ","f","i","l","e">>))

\* C18: when the input is "no" and the suggestions of the previous turn
\* included the creation of a file, execute_task returns the decline message
\* and creates no file in that turn, whatever the response cache and the table
\* of recent patterns hold.
C18_NoIsDeclined ==
  \A k \in 2..Len(log) :
    (log[k].input = (<<"n","o">>) /\ SuggestsFile(log[k - 1].response)) =>
      /\ Contains(log[k].response.message,
                  (<<"N","o"," ","p","r","o","b","l","e","m","!"," ","L","e","t"," ","m","e"," ","k","n","o","w"," ","i","f"," ","y","o","u"," ","n","e","e","d"," ","a","n","y","t","h","i","n","g"," ","e","l","s","e",".">>))
      /\ log[k].path # "agreement"

\* the input holds "no" followed by but, instead, please or wait
Clarifies(user_input) ==
  \E k \in 1..(Len(split(strip(lower(user_input)))) - 1) :
    /\ split(strip(lower(user_input)))[k] = (<<"n","o">>)
    /\ split(strip(lower(user_input)))[k + 1] \in {(<<"b","u","t">>), (<<"i","n","s","t","e","a","d">>), (<<"p","l","e","a","s","e">>), (<<"w","a","i","t">>)}

\* C20: an input that matches a clarification pattern is not treated as a
\* negative response, whatever its length: the negative bypass does not fire,
\* and unless the turn is answered from the cache _analyze_and_plan is called.
C20_ClarificationIsPlanned ==
  \A k \in DOMAIN log :
    Clarifies(log[k].input) =>
      /\ log[k].path \in {"cache", "planned"}
      /\ ~Contains(Get(log[k].response, "message", <<>>), (<<"U","s","e","r"," ","d","e","c","l","i","n","e","d">>))
      /\ log[k].path = "cache" => log[k].llm_calls = 0

\* C20's case: a clarification of two words and one of four words have both
\* gone to the planner
C20_Witness ==
  /\ Len(log) = 2
  /\ log[1].input = (<<"n","o"," ","p","l","e","a","s","e">>) /\ log[1].path = "planned"
  /\ log[2].input = (<<"n","o"," ","b","u","t"," ","o","p","e","n"," ","n","o","t","e","p","a","d">>) /\ log[2].path = "planned"

(***************************************************************************)
(* The agreement bypass                                                    *)
(***************************************************************************)

\* an input of at most 3 words that contains a word of the agreement
\* vocabulary and none of the negative vocabulary
ShortAgreement(user_input) ==
  /\ Len(split(user_input)) <= 3
  /\ \E word \in {(<<"y","e","s">>), (<<"s","u","r","e">>), (<<"o","k">>), (<<"o","k","a","y">>), (<<"y","e","p">>), (<<"y","e","a","h">>), (<<"p","l","e","a","s","e">>), (<<"d","o"," ","i","t">>)} :
       Contains(strip(lower(user_input)), word)
  /\ ~\E word \in {(<<"n","o">>), (<<"n","o","p","e">>), (<<"n","a","h">>), (<<"n","o","t">>), (<<"d","o","n","'","t">>), (<<"c","a","n","c","e","l">>), (<<"s","k","i","p">>),
                   (<<"n","e","v","e","r"," ","m","i","n","d">>)} :
       Contains(strip(lower(user_input)), word)

\* one of the last three entries of the context mentions the creation of a file
CueInLastThree(history) ==
  \E k \in DOMAIN history :
    /\ k > Len(history) - 3
    /\ \/ Contains(lower(history[k]), (<<"c","r","e","a","t","e"," ","a"," ","t","e","s","t"," ","f","i","l","e">>))
       \/ Contains(lower(history[k]), (<<"w","r","i","t","e">>))

\* C19 as stated: every input of at most 3 words that matches the agreement
\* vocabulary and no negative vocabulary bypasses the planner: the turn is
\* resolved from the last context entries by creating the file, and
\* _analyze_and_plan and the LLM are not invoked in that turn.
C19_AgreementBypassesPlanner ==
  (turn.done /\ ShortAgreement(turn.input)) =>
    /\ turn.path \in {"agreement", "cache"}
    /\ turn.llm_calls = 0

\* C19: an input of at most 3 words that contains an agreement word and no
\* negative word, in a turn that is not answered from the cache, bypasses the
\* planner exactly when one of the last three context entries (the entry of
\* the input included) mentions 'create a test file' or 'write': then
\* create_file is called directly, its outcome is the response and neither
\* _analyze_and_plan nor the LLM is invoked; without such an entry the turn
\* goes to _analyze_and_plan.
C19_AgreementWithCueBypassesPlanner ==
  (turn.done /\ ShortAgreement(turn.input) /\ turn.path # "cache") =>
    IF CueInLastThree(turn.context)
      THEN /\ turn.path = "agreement"
           /\ turn.llm_calls = 0 /\ ~turn.planned
           /\ turn.response.type = "single_action_execution"
           /\ Contains(turn.response.message, (<<"t","e","s","t",".","t","x","t">>))
              \/ turn.response.status = "error"
      ELSE turn.path = "planned" /\ turn.planned

\* C19's case: "yes" after a planned turn that suggested a test file has
\* created the file
C19_Witness ==
  /\ Len(log) = 2
  /\ log[1].path = "planned" /\ SuggestsFile(log[1].response)
  /\ turn.done /\ turn.input = (<<"y","e","s">>) /\ turn.path = "agreement"
  /\ turn.response.status = "success"

(***************************************************************************)
(* What execute_task writes to the response cache                          *)
(***************************************************************************)

\* the keys of the recent_tasks table in the cache
RecentKeys ==
  IF cache_get(entries, (<<"p","a","t","t","e","r","n","s">>), (<<"r","e","c","e","n","t","_","t","a","s","k","s">>), now) = NoValue THEN {}
  ELSE {cache_get(entries, (<<"p","a","t","t","e","r","n","s">>), (<<"r","e","c","e","n","t","_","t","a","s","k","s">>), now).items[k].k :
          k \in DOMAIN cache_get(entries, (<<"p","a","t","t","e","r","n","s">>), (<<"r","e","c","e","n","t","_","t","a","s","k","s">>), now).items}

\* C21: a turn result is written to the response cache only when the task
\* execution succeeded: a result whose overall status is 'error' is stored
\* neither in task_responses nor in recent_tasks.
C21_ErrorsAreNotCached ==
  (turn.done /\ turn.path = "planned" /\ ~turn.raised
     /\ Get(turn.response, "status", "") = "error") =>
    /\ cache_get(entries, (<<"t","a","s","k","_","r","e","s","p","o","n","s","e","s">>), strip(lower(turn.input)), now) = NoValue
    /\ strip(lower(turn.input)) \notin RecentKeys

(***************************************************************************)
(* TaskExecutor._cache_response: the recent_tasks table over many turns    *)
(***************************************************************************)

\* the number of different inputs, one more than the table keeps
MaxInputs == 51

outsideRecent ==
  <<entries, now, api, ops, context_history, execution_stats, pc, turn, turns, log, memoryVars,
    guiVars, expert, breaker, retry, probe>>

\* the keys of the table, in dict order
TableKeys == [k \in DOMAIN recent.items |-> recent.items[k].k]

\* the inputs of the turns so far that are not the empty input
Numbered == SelectSeq(recent.submitted, LAMBDA key : key # <<>>)

\* a turn with user_input reaches _cache_response: _check_cache found no key
\* of the table similar to the input, and the entry of task_responses for it,
\* if there was one, has expired.  The inputs are the empty one, "1", and the
\* numbers in the order of their first submission.
CachedTurn(user_input) ==
  /\ pc = "recent"
  /\ user_input \in {<<>>, (<<"1">>), str_int(Len(Numbered) + 1)}
  /\ Len(Numbered) < MaxInputs \/ user_input # str_int(Len(Numbered) + 1)
  /\ ~\E k \in DOMAIN recent.items :
        is_similar_task(strip(lower(user_input)), recent.items[k].k)
  /\ recent' =
       [items |-> recent_tasks_put(recent.items, strip(lower(user_input)),
                                   [py |-> "response", status |-> "success",
                                    message |-> (<<"D","o","n","e"," ">>) \o user_input]),
        submitted |-> Append(SelectSeq(recent.submitted,
                                       LAMBDA key : key # strip(lower(user_input))),
                             strip(lower(user_input)))]
  /\ UNCHANGED outsideRecent

InitRecent ==
  /\ entries = <<>>
  /\ now = 0
  /\ api = [last |-> NoCall, prev |-> NoCall]
  /\ ops = 0
  /\ context_history = <<>>
  /\ execution_stats = NoStats
  /\ pc = "recent"
  /\ turn = NoTurn
  /\ turns = 0
  /\ log = <<>>
  /\ ComponentsIdle

NextRecent == \E i \in 0..MaxInputs : CachedTurn(IF i = 0 THEN <<>> ELSE str_int(i))

SpecRecent == InitRecent /\ [][NextRecent]_vars

\* the last n entries of a sequence
LastN(xs, n) == SubSeq(xs, IF Len(xs) > n THEN Len(xs) - n + 1 ELSE 1, Len(xs))

\* C22: after any sequence of cached turns the recent_tasks table holds at most
\* 50 entries, and they are the 50 most recently submitted distinct normalized
\* inputs: the entry that goes when a 51st comes is the one whose last
\* submission is the oldest.
C22_FiftyMostRecent ==
  /\ Len(recent.items) <= 50
  /\ Range(TableKeys) = Range(LastN(recent.submitted, 50))

(***************************************************************************)
(* TaskExecutor._is_similar_task and the similar hit of _check_cache       *)
(***************************************************************************)

\* normalized inputs to compare
SimilarInputs ==
  { <<>>, (<<"n","o">>), (<<"n","o"," ","w","a","i","t">>), (<<"o","p","e","n"," ","n","o","t","e","p","a","d">>), (<<"n","o","t","e","p","a","d"," ","o","p","e","n">>), (<<"o","p","e","n"," ","n","o","t","e","p","a","d"," ","n","o","w">>),
    (<<"o","p","e","n"," ","t","h","e"," ","n","o","t","e","p","a","d"," ","n","o","w">>), (<<"p","l","e","a","s","e"," ","o","p","e","n"," ","t","h","e"," ","n","o","t","e","p","a","d"," ","n","o","w">>), (<<"c","l","o","s","e"," ","n","o","t","e","p","a","d">>),
    (<<"w","r","i","t","e"," ","h","e","l","l","o">>), (<<"o","p","e","n"," ","o","p","e","n"," ","n","o","t","e","p","a","d">>) }

outsideProbe ==
  <<entries, now, api, ops, context_history, execution_stats, pc, turn, turns, log, memoryVars,
    guiVars, expert, recent, breaker, retry>>

\* _is_similar_task(input1, input2), and _check_cache(input1) with the response
\* to input2 as the only one cached
IsSimilarTask(input1, input2) ==
  /\ pc = "similar"
  /\ probe' =
       [input1 |-> input1, input2 |-> input2,
        similar |-> is_similar_task(input1, input2),
        answered |->
          check_cache(cache_response(<<>>, input2,
                                     [py |-> "response", status |-> "success",
                                      message |-> (<<"D","o","n","e">>)], 0),
                      input1, 0).response # NoValue]
  /\ UNCHANGED outsideProbe

InitSimilar ==
  /\ entries = <<>>
  /\ now = 0
  /\ api = [last |-> NoCall, prev |-> NoCall]
  /\ ops = 0
  /\ context_history = <<>>
  /\ execution_stats = NoStats
  /\ pc = "similar"
  /\ turn = NoTurn
  /\ turns = 0
  /\ log = <<>>
  /\ ComponentsIdle

NextSimilar == \E input1 \in SimilarInputs, input2 \in SimilarInputs : IsSimilarTask(input1, input2)

SpecSimilar == InitSimilar /\ [][NextSimilar]_vars

\* the word set of an input
W(x) == Range(split(x))

\* the Jaccard word overlap of two inputs exceeds 0.7
JaccardAbove(x, y) ==
  10 * Cardinality(W(x) \cap W(y)) > 7 * Cardinality(W(x) \cup W(y))

\* C23: input x is answered with the cached response of a different input y
\* only if the Jaccard overlap of their word sets exceeds 0.7; the similarity
\* is symmetric in x and y and false when either has no words.
C23_SimilarMeansJaccard ==
  probe # NoValue =>
    /\ (probe.input1 # probe.input2 /\ probe.answered)
         => JaccardAbove(probe.input1, probe.input2)
    /\ probe.similar = is_similar_task(probe.input2, probe.input1)
    /\ (W(probe.input1) = {} \/ W(probe.input2) = {}) => ~probe.similar

(***************************************************************************)
(* The composed response of a plan with one action                         *)
(***************************************************************************)

\* the bulleted addendum for the suggestions of a plan
Addendum(suggestions) ==
  IF suggestions = <<>> THEN <<>>
  ELSE (<<"\n","\n","<robot>"," ","A","d","d","i","t","i","o","n","a","l"," ","s","u","g","g","e","s","t","i","o","n","s",":">>)
       \o Join(<<>>, [k \in DOMAIN suggestions |-> (<<"\n","<bullet>"," ">>) \o suggestions[k]])

\* C24: when exactly one action ran, the composed message is that action's own
\* message verbatim, without number or icon, followed only by the bulleted
\* addendum when the plan has suggestions; the response also carries the
\* results of the actions and the list of suggestions.
C24_SingleActionVerbatim ==
  (PlanExecuted /\ Len(Actions) = 1) =>
    /\ "message" \in DOMAIN turn.results[1]
    /\ turn.response.message =
         Get(turn.results[1], "message", <<>>)
           \o Addendum(Get(turn.plan, "proactive_suggestions", <<>>))
    /\ turn.response.execution_results = turn.results
    /\ turn.response.suggestions = Get(turn.plan, "proactive_suggestions", <<>>)

(***************************************************************************)
(* TaskExecutor._analyze_and_plan and the plan cache                       *)
(*                                                                         *)
(* log holds the calls of _analyze_and_plan.  Between them the responses   *)
(* of other turns are written to the same LocalCache, and time passes.     *)
(***************************************************************************)

\* the number of calls of _analyze_and_plan in a run
MaxPlanCalls == 2

\* the number of responses of other turns cached in a run
MaxOtherResponses == 1

\* the clock of the planner runs in steps of an hour, at most MaxPlanHours
MaxPlanHours == 3

\* the inputs given to the planner: one a pattern matches, the same in another
\* spelling
PlanInputs == { (<<"o","p","e","n"," ","n","o","t","e","p","a","d">>), (<<"O","p","e","n"," ","N","o","t","e","p","a","d"," ">>) }

\* the input of the other turns
OtherInputs == { (<<"w","r","i","t","e"," ","h","e","l","l","o">>) }

\* what the LLM answers to the planning prompt: malformed JSON, or a plan
PlanReplies == { <<Ch("{"), Ch("x"), Ch("}")>> } \cup {<<Json(p)>> : p \in Plans}

\* the sizes of the responses of the other turns, in the units of MaxSizeBytes
ResponseSizes == {1, 9}

outsidePlanner == <<api, ops, context_history, pc, turn, turns, componentVars>>

\* the cache key of the plan for user_input
PlanKey(user_input) == generate_key((<<"a","i","_","r","e","s","p","o","n","s","e","s">>), prompt_hash(user_input, (<<"p","l","a","n","n","i","n","g","_","s","y","s","t","e","m">>)))

\* _analyze_and_plan(user_input) is called and the LLM, if asked, answers reply
AnalyzeAndPlan(user_input, reply) ==
  /\ pc = "planner"
  /\ Len(log) < MaxPlanCalls
  /\ entries' = analyze_and_plan(entries, user_input, now, reply,
                                 ParsedIntent[user_input][<<>>]).entries
  /\ execution_stats' =
       [execution_stats EXCEPT
          !.ai_calls = @ + analyze_and_plan(entries, user_input, now, reply,
                                            ParsedIntent[user_input][<<>>]).ai_calls]
  /\ log' = Append(log,
       [input |-> user_input, at |-> now, reply |-> reply,
        held |-> EntryIndex(entries, PlanKey(user_input)) # 0,
        source |-> analyze_and_plan(entries, user_input, now, reply,
                                    ParsedIntent[user_input][<<>>]).source,
        plan |-> analyze_and_plan(entries, user_input, now, reply,
                                  ParsedIntent[user_input][<<>>]).plan,
        ai_calls_before |-> execution_stats.ai_calls,
        ai_calls |-> execution_stats'.ai_calls])
  /\ UNCHANGED now
  /\ UNCHANGED outsidePlanner

\* another turn ends and _cache_response stores its response
OtherTurnCached(user_input, size) ==
  /\ pc = "planner"
  /\ execution_stats.total_executions < MaxOtherResponses
  /\ entries' = cache_response(entries, user_input,
                               [py |-> "response", status |-> "success",
                                message |-> (<<"D","o","n","e">>), size |-> size], now)
  /\ execution_stats' = [execution_stats EXCEPT !.total_executions = @ + 1]
  /\ UNCHANGED <<now, log>>
  /\ UNCHANGED outsidePlanner

\* an hour passes
HourPasses ==
  /\ pc = "planner"
  /\ now < MaxPlanHours * 3600
  /\ now' = now + 3600
  /\ UNCHANGED <<entries, execution_stats, log>>
  /\ UNCHANGED outsidePlanner

InitPlanner ==
  /\ entries = <<>>
  /\ now = 0
  /\ api = [last |-> NoCall, prev |-> NoCall]
  /\ ops = 0
  /\ context_history = <<>>
  /\ execution_stats = NoStats
  /\ pc = "planner"
  /\ turn = NoTurn
  /\ turns = 0
  /\ log = <<>>
  /\ ComponentsIdle

NextPlanner ==
  \/ \E user_input \in PlanInputs, reply \in PlanReplies : AnalyzeAndPlan(user_input, reply)
  \/ \E user_input \in OtherInputs, size \in ResponseSizes : OtherTurnCached(user_input, size)
  \/ HourPasses

SpecPlanner == InitPlanner /\ [][NextPlanner]_vars

\* call i stored its plan after a successful LLM round-trip, call j is a later
\* call with the same input text before the TTL of two hours has elapsed, and
\* no call between them stored a plan for that input
StoredBefore(i, j) ==
  /\ i < j
  /\ log[i].input = log[j].input
  /\ log[i].source = "llm"
  /\ log[j].at - log[i].at < 2 * 3600
  /\ \A k \in (i + 1)..(j - 1) : ~(log[k].input = log[j].input /\ log[k].source = "llm")

\* the plans in the cache are plans parsed from a reply of the LLM
OnlyParsedPlansStored ==
  \A e \in DOMAIN entries :
    entries[e].namespace = (<<"a","i","_","r","e","s","p","o","n","s","e","s">>) =>
      \E i \in DOMAIN log :
        /\ entries[e].cache_key = PlanKey(log[i].input)
        /\ log[i].source = "llm"
        /\ json_loads(ExtractJson(log[i].reply)).ok
        /\ log[i].plan = json_loads(ExtractJson(log[i].reply)).value
        /\ entries[e].data.response = <<Json(log[i].plan)>>

\* C25 as stated: a plan stored after a successful LLM round-trip is returned,
\* without a call of the LLM and with ai_calls unchanged, by every later call
\* with the same input text before its TTL of two hours has elapsed; a plan is
\* stored only after the LLM reply was parsed, never for a fallback plan.
C25_PlanCachedForTwoHours ==
  /\ \A j \in DOMAIN log : \A i \in DOMAIN log :
       StoredBefore(i, j) =>
         /\ log[j].source = "cache"
         /\ log[j].plan = log[i].plan
         /\ log[j].ai_calls = log[j].ai_calls_before
  /\ OnlyParsedPlansStored

\* C25, amended: the stored plan is returned by every later call with the same
\* input text before its TTL has elapsed, provided its entry is still in the
\* cache, that is, has not been evicted to keep the size budget.
C25_HeldPlanReturned ==
  /\ \A j \in DOMAIN log : \A i \in DOMAIN log :
       (StoredBefore(i, j) /\ log[j].held) =>
         /\ log[j].source = "cache"
         /\ log[j].plan = log[i].plan
         /\ log[j].ai_calls = log[j].ai_calls_before
  /\ OnlyParsedPlansStored

\* C25's case: a plan was stored, the response of another turn was cached, and
\* an hour or more later the same input came again with the plan still in the
\* cache
C25_Witness ==
  /\ \E j \in DOMAIN log : \E i \in DOMAIN log :
       StoredBefore(i, j) /\ log[j].held /\ log[j].at > log[i].at
  /\ execution_stats.total_executions > 0

(***************************************************************************)
(* TaskExecutor.context_history over many turns                            *)
(*                                                                         *)
(* Each call of execute_task appends the user's entry and, unless it ends  *)
(* in the except clause or with an empty message, the assistant's entry.   *)
(* log holds every entry appended so far.                                  *)
(***************************************************************************)

\* the number of calls of execute_task in a run
MaxContextTurns == 6

\* the results a turn may end with, whatever path it took: no message, a
\* message, and a message with suggestions and their addendum
ContextResults ==
  { [py |-> "response", status |-> "success", message |-> <<>>],
    [py |-> "response", status |-> "success", message |-> (<<"D","o","n","e">>)],
    [py |-> "response", status |-> "success",
     message |-> (<<"D","o","n","e","\n","\n","<robot>"," ","A","d","d","i","t","i","o","n","a","l"," ","s","u","g","g","e","s","t","i","o","n","s",":","\n","<bullet>"," ","a">>),
     suggestions |-> <<(<<"a">>), (<<"b">>), (<<"c">>)>>] }

outsideContext == <<entries, now, api, ops, execution_stats, pc, turn, componentVars>>

\* execute_task(user_input) returns result from its try block: from the cache,
\* from a bypass or from the planned path
TurnAnswered(user_input, result) ==
  /\ pc = "context"
  /\ turns < MaxContextTurns
  /\ user_input = (<<"a","s","k"," ">>) \o str_int(turns + 1)
  /\ context_history' = store_assistant_context(WithUser(user_input), result)
  /\ log' = log \o <<(<<"U","s","e","r",":"," ">>) \o user_input>> \o store_assistant_context(<<>>, result)
  /\ turns' = turns + 1
  /\ UNCHANGED outsideContext

\* execute_task(user_input) ends in its except clause
TurnFailed(user_input) ==
  /\ pc = "context"
  /\ turns < MaxContextTurns
  /\ user_input = (<<"a","s","k"," ">>) \o str_int(turns + 1)
  /\ context_history' = WithUser(user_input)
  /\ log' = log \o <<(<<"U","s","e","r",":"," ">>) \o user_input>>
  /\ turns' = turns + 1
  /\ UNCHANGED outsideContext

InitContext ==
  /\ entries = <<>>
  /\ now = 0
  /\ api = [last |-> NoCall, prev |-> NoCall]
  /\ ops = 0
  /\ context_history = <<>>
  /\ execution_stats = NoStats
  /\ pc = "context"
  /\ turn = NoTurn
  /\ turns = 0
  /\ log = <<>>
  /\ ComponentsIdle

NextContext ==
  \E i \in 1..MaxContextTurns :
    \/ \E result \in ContextResults : TurnAnswered((<<"a","s","k"," ">>) \o str_int(i), result)
    \/ TurnFailed((<<"a","s","k"," ">>) \o str_int(i))

SpecContext == InitContext /\ [][NextContext]_vars

\* C26: after any sequence of execute_task calls the length of context_history
\* never exceeds 2 * max_context_history = 10, entries are dropped oldest
\* first, and the remaining entries are in the order in which they were
\* appended: context_history is the last ten of the entries appended.
C26_ContextBounded ==
  /\ Len(context_history) <= 10
  /\ context_history = LastN(log, 10)

\* C26's case: more than ten entries have been appended, by turns with and
\* without an assistant entry
C26_Witness ==
  /\ Len(log) > 10
  /\ Len(log) < 2 * turns

(***************************************************************************)
(* What a turn answered from the response cache changes                    *)
(***************************************************************************)

\* the step is a call of execute_task answered from the response cache
AnsweredFromCache == turns' = turns + 1 /\ turn'.path = "cache"

\* no planner call and no action handler ran in the turn, and beside the
\* cache nothing but context_history and the two counters changed
OnlyContextAndCounters ==
  /\ ~turn'.planned /\ turn'.llm_calls = 0 /\ turn'.ai_calls = 0
  /\ turn'.trace = <<>> /\ turn'.results = <<>>
  /\ pc' = pc
  /\ execution_stats' = [execution_stats EXCEPT !.total_executions = @ + 1,
                                                !.cache_hits = @ + 1]
  /\ UNCHANGED <<now, api, ops, componentVars>>

\* C27 as stated: when execute_task is answered from the response cache, no
\* planner call and no action handler runs in that turn, the only state
\* changed is context_history and the total_executions and cache_hits
\* counters, and the cache is left as it was.
C27_CacheHitLeavesCacheAlone ==
  [][AnsweredFromCache => (OnlyContextAndCounters /\ entries' = entries)]_vars

\* every entry afterwards was there before, unchanged and in the same order,
\* and every entry that has gone had expired
OnlyExpiredRemoved ==
  /\ entries' = SelectSeq(entries, LAMBDA e : \E k \in DOMAIN entries' : entries'[k] = e)
  /\ \A j \in DOMAIN entries :
       now <= entries[j].expires => \E k \in DOMAIN entries' : entries'[k] = entries[j]

\* C27, amended: in a turn answered from the response cache the cache gets no
\* new entry and no entry is rewritten; the lookup only removes entries whose
\* TTL has elapsed.
C27_CacheHitOnlyDropsExpired ==
  [][AnsweredFromCache => (OnlyContextAndCounters /\ OnlyExpiredRemoved)]_vars

\* C27's case: a turn was answered from the table of recent tasks after its
\* own entry in task_responses had expired and was removed by the lookup
C27_Witness ==
  /\ turn.done /\ turn.path = "cache"
  /\ turn.at > TaskResponseTtl
  /\ entries # <<>>
  /\ \A k \in DOMAIN entries : entries[k].namespace # (<<"t","a","s","k","_","r","e","s","p","o","n","s","e","s">>)

(***************************************************************************)
(* CircuitBreaker.call, one call after another                             *)
(*                                                                         *)
(* breaker holds the object (b), the call in progress or just ended        *)
(* (call), and the number of times the wrapped function was invoked.       *)
(***************************************************************************)

\* the number of calls of call() in a run
MaxBreakerCalls == 6

\* the clock of the breaker moves in steps of BreakerStep seconds, at most
\* MaxBreakerSteps times
MaxBreakerSteps == 4

BreakerStep == 31

\* the thresholds a breaker is made with
Thresholds == {1, 2, 3}

outsideBreaker ==
  <<entries, api, ops, context_history, execution_stats, pc, turn, turns, log, memoryVars,
    guiVars, expert, recent, retry, probe>>

\* CircuitBreaker(failure_threshold, 60)
NewBreaker(failure_threshold) ==
  /\ pc = "breaker"
  /\ breaker = NoValue
  /\ breaker' = [b |-> new_breaker(failure_threshold, 60), calls |-> 0, invoked |-> 0,
                 in_func |-> FALSE, call |-> NoValue]
  /\ UNCHANGED now
  /\ UNCHANGED outsideBreaker

\* call(func) is entered: it raises at once, or goes on to invoke func
BreakerCall ==
  /\ pc = "breaker"
  /\ breaker # NoValue
  /\ ~breaker.in_func
  /\ breaker.calls < MaxBreakerCalls
  /\ breaker' =
       [b |-> breaker_admit(breaker.b, now).breaker,
        calls |-> breaker.calls + 1,
        invoked |-> IF breaker_admit(breaker.b, now).raise
                      THEN breaker.invoked ELSE breaker.invoked + 1,
        in_func |-> ~breaker_admit(breaker.b, now).raise,
        call |-> [before |-> breaker.b, at |-> now, invoked_before |-> breaker.invoked,
                  outcome |-> IF breaker_admit(breaker.b, now).raise
                                THEN "breaker_open" ELSE "running"]]
  /\ UNCHANGED now
  /\ UNCHANGED outsideBreaker

\* func returns (ok) or raises, and call() returns or raises with it
FuncEnds(ok) ==
  /\ pc = "breaker"
  /\ breaker # NoValue
  /\ breaker.in_func
  /\ breaker' =
       [breaker EXCEPT
          !.b = IF ok THEN on_success(breaker.b) ELSE on_failure(breaker.b, now),
          !.in_func = FALSE,
          !.call.outcome = IF ok THEN "returned" ELSE "raised"]
  /\ UNCHANGED now
  /\ UNCHANGED outsideBreaker

\* time passes, also while func runs
BreakerTick ==
  /\ pc = "breaker"
  /\ breaker # NoValue
  /\ now < MaxBreakerSteps * BreakerStep
  /\ now' = now + BreakerStep
  /\ UNCHANGED breaker
  /\ UNCHANGED outsideBreaker

InitBreaker ==
  /\ entries = <<>>
  /\ now = 0
  /\ api = [last |-> NoCall, prev |-> NoCall]
  /\ ops = 0
  /\ context_history = <<>>
  /\ execution_stats = NoStats
  /\ pc = "breaker"
  /\ turn = NoTurn
  /\ turns = 0
  /\ log = <<>>
  /\ ComponentsIdle

NextBreaker ==
  \/ \E failure_threshold \in Thresholds : NewBreaker(failure_threshold)
  \/ BreakerCall
  \/ \E ok \in BOOLEAN : FuncEnds(ok)
  \/ BreakerTick

SpecBreaker == InitBreaker /\ [][NextBreaker]_vars

\* the last call was made with the breaker OPEN and the recovery timeout not
\* yet elapsed since the last failure
MadeWhileOpen ==
  /\ breaker.call.before.state = "OPEN"
  /\ breaker.call.at - breaker.call.before.last_failure_time <= breaker.b.recovery_timeout

\* the last call was made with the breaker OPEN after the recovery timeout
MadeAfterTimeout ==
  /\ breaker.call.before.state = "OPEN"
  /\ breaker.call.at - breaker.call.before.last_failure_time > breaker.b.recovery_timeout

\* C28: the state is OPEN only if failure_count >= failure_threshold; a call
\* made while the breaker is OPEN and the recovery timeout has not elapsed
\* raises without invoking the wrapped function; after the timeout one trial
\* call is let through with the breaker HALF_OPEN, and no other; its success
\* sets the state to CLOSED with failure_count 0 and its failure returns the
\* breaker to OPEN.
C28_BreakerProtocol ==
  (breaker # NoValue) =>
    /\ breaker.b.state = "OPEN" => breaker.b.failure_count >= breaker.b.failure_threshold
    /\ breaker.b.state = "HALF_OPEN" =>
         (breaker.in_func /\ MadeAfterTimeout /\ breaker.call.outcome = "running")
    /\ (breaker.call # NoValue /\ MadeWhileOpen) =>
         /\ breaker.call.outcome = "breaker_open"
         /\ breaker.invoked = breaker.call.invoked_before
         /\ breaker.b = breaker.call.before
    /\ (breaker.call # NoValue /\ MadeAfterTimeout) =>
         /\ breaker.invoked = breaker.call.invoked_before + 1
         /\ breaker.call.outcome = "running" => breaker.b.state = "HALF_OPEN"
         /\ breaker.call.outcome = "returned" =>
              (breaker.b.state = "CLOSED" /\ breaker.b.failure_count = 0)
         /\ breaker.call.outcome = "raised" => breaker.b.state = "OPEN"

\* C28's case: a breaker with a threshold above one opened, a call was refused,
\* and the trial call after the timeout succeeded
C28_Witness ==
  /\ breaker # NoValue
  /\ breaker.b.failure_threshold > 1
  /\ breaker.call # NoValue
  /\ MadeAfterTimeout
  /\ breaker.call.outcome = "returned"
  /\ breaker.invoked < breaker.calls

(***************************************************************************)
(* A call of a function wrapped by retry_with_backoff                      *)
(***************************************************************************)

\* the largest max_retries a function is wrapped with
MaxRetries == 3

\* the tuples of exception types a function is wrapped with: the default, and
\* one type
ExceptionTuples == { {"Exception"}, {"ValueError"} }

\* how the k-th invocation of func ends
Outcomes(k) ==
  { [kind |-> "return", value |-> k] }
  \cup { [kind |-> "raise", type |-> t, invocation |-> k] :
           t \in {"ValueError", "KeyError", "KeyboardInterrupt"} }

outsideRetry ==
  <<entries, api, ops, context_history, execution_stats, pc, turn, turns, log, memoryVars,
    guiVars, expert, recent, breaker, probe>>

\* the wrapped function is called
CallWrapped(max_retries, exceptions) ==
  /\ pc = "retry"
  /\ retry = NoValue
  /\ retry' = wrapper_called(max_retries, exceptions)
  /\ UNCHANGED now
  /\ UNCHANGED outsideRetry

\* func returns or raises
FuncOutcome(outcome) ==
  /\ pc = "retry"
  /\ retry # NoValue
  /\ retry.at = "func"
  /\ outcome \in Outcomes(Len(retry.invocations) + 1)
  /\ retry' = func_ended(retry, outcome)
  /\ UNCHANGED now
  /\ UNCHANGED outsideRetry

\* time.sleep(wait_time) returns
SleepOver ==
  /\ pc = "retry"
  /\ retry # NoValue
  /\ retry.at = "sleep"
  /\ retry' = slept(retry)
  /\ now' = now + retry.wait_time
  /\ UNCHANGED outsideRetry

InitRetry ==
  /\ entries = <<>>
  /\ now = 0
  /\ api = [last |-> NoCall, prev |-> NoCall]
  /\ ops = 0
  /\ context_history = <<>>
  /\ execution_stats = NoStats
  /\ pc = "retry"
  /\ turn = NoTurn
  /\ turns = 0
  /\ log = <<>>
  /\ ComponentsIdle

NextRetry ==
  \/ \E max_retries \in 0..MaxRetries, exceptions \in ExceptionTuples :
       CallWrapped(max_retries, exceptions)
  \/ \E k \in 1..(MaxRetries + 1) : \E outcome \in Outcomes(k) : FuncOutcome(outcome)
  \/ SleepOver

SpecRetry == InitRetry /\ [][NextRetry]_vars

\* every invocation of func ends and every sleep returns
SpecRetryLive ==
  /\ SpecRetry
  /\ WF_vars(\E k \in 1..(MaxRetries + 1) : \E outcome \in Outcomes(k) : FuncOutcome(outcome))
  /\ WF_vars(SleepOver)

\* invocation k raised an exception of a listed type
RaisedListed(k) ==
  /\ retry.invocations[k].kind = "raise"
  /\ catches(retry.exceptions, retry.invocations[k])

\* the number of invocations so far
Invocations == Len(retry.invocations)

\* at most n + 1 invocations; every invocation but the last raised a listed
\* exception; the wrapper ends with the result of the invocation that did not
\* raise, with the exception outside the listed types, or after n + 1 listed
\* exceptions with the last of them, and goes on otherwise
RetryProtocol ==
  (retry # NoValue) =>
    /\ Invocations <= retry.max_retries + 1
    /\ \A k \in 1..(Invocations - 1) : RaisedListed(k)
    /\ (Invocations > 0 /\ retry.invocations[Invocations].kind = "return") =>
         /\ retry.at = "done"
         /\ retry.returned = retry.invocations[Invocations].value
         /\ retry.raised = NoValue
    /\ (Invocations > 0 /\ retry.invocations[Invocations].kind = "raise"
          /\ ~RaisedListed(Invocations)) =>
         /\ retry.at = "done"
         /\ retry.raised = retry.invocations[Invocations]
    /\ (Invocations > 0 /\ RaisedListed(Invocations)) =>
         IF Invocations = retry.max_retries + 1
           THEN retry.at = "done" /\ retry.raised = retry.invocations[Invocations]
           ELSE retry.at # "done"

\* C29: retry_with_backoff(max_retries = n) always terminates after at most
\* n + 1 invocations of the wrapped function: it returns the result of the
\* first invocation that does not raise and makes no further invocation; if
\* all n + 1 invocations raise a listed exception it raises the last one
\* again; an exception outside the listed types propagates at once.
C29_RetryTerminates ==
  /\ []RetryProtocol
  /\ (retry # NoValue) ~> (retry # NoValue /\ retry.at = "done")

\* C29's case: the wrapper gave up after n + 1 > 1 invocations that raised
\* listed exceptions of two types
C29_Witness ==
  /\ retry # NoValue
  /\ retry.at = "done"
  /\ retry.max_retries > 0
  /\ Invocations = retry.max_retries + 1
  /\ RaisedListed(Invocations)
  /\ retry.invocations[1].type # retry.invocations[Invocations].type

(***************************************************************************)
(* Isolation of the (namespace, key) pairs of LocalCache (under SpecCache) *)
(***************************************************************************)

\* the step is a call of set() that stays within the size budget
SetWithinBudget ==
  /\ ops' = ops + 1
  /\ api'.last.op = "set"
  /\ TotalSize(api'.last.put) <= MaxSizeBytes

\* the step is a call of clear_namespace()
Cleared == ops' = ops + 1 /\ api'.last.op = "clear"

\* C30: cache entries are isolated by (namespace, key): while the size budget
\* is not exceeded, set(ns1, k1, v) changes the result of get(ns2, k2) for no
\* pair (ns2, k2) different from (ns1, k1), and clear_namespace(ns1) removes no
\* entry of another namespace.
C30_PairsAreIsolated ==
  [][/\ SetWithinBudget =>
          \A p \in CachePairs :
            p # <<api'.last.namespace, api'.last.key>> =>
              cache_get(entries', p[1], p[2], now) = cache_get(entries, p[1], p[2], now)
     /\ Cleared =>
          \A k \in DOMAIN entries :
            entries[k].namespace # api'.last.namespace =>
              \E j \in DOMAIN entries' : entries'[j] = entries[k]]_vars
=============================================================================
